---- MODULE Spec2Model ----
(***************************************************************************)
(* tower-otel: tracing and metrics middlewares wrapping a tower Service.   *)
(*                                                                         *)
(* One middleware instance (chosen in Init: which middleware, which side)  *)
(* handles up to MaxReqs requests.  Per request the model follows the      *)
(* response future: call, polls of the inner future (Pending or Ready),    *)
(* and the drop of the future, before or after resolution.  A resolved     *)
(* future is not polled again (the contract of Future::poll).              *)
(***************************************************************************)
EXTENDS Integers, Sequences, FiniteSets, TLC

\* ------------------------------------------------------------------ bounds
MaxReqs  == 1      \* requests handled by the middleware instance
MaxPolls == 1      \* polls of one response future that return Pending
MaxTime  == 1      \* ticks of the monotonic clock

Reqs == 1..MaxReqs

\* ------------------------------------------------------- values and inputs
None    == <<>>
Some(x) == <<x>>

\* tracing field values
Empty  == [empty |-> TRUE]
Str(s) == [str |-> s]
I64(n) == [i64 |-> n]

\* http::HeaderValue: bytes that are visible ASCII text (to_str succeeds) or not
Text(s)   == [text |-> TRUE, s |-> s]
Opaque(s) == [text |-> FALSE, s |-> s]

\* a String handed to the injector, by the bytes it is made of: visible ASCII
\* only, some byte above 0x7f (and no control byte), or some control byte
AsciiString(s)    == [s |-> s, bytes |-> "ascii"]
NonAsciiString(s) == [s |-> s, bytes |-> "non-ascii"]
ControlString(s)  == [s |-> s, bytes |-> "control"]
Header(n, v) == [name |-> n, value |-> v]

\* Poll<T>
Pending  == [pending |-> TRUE]
Ready(x) == [pending |-> FALSE, value |-> x]

\* Result<Response, E>
Ok(response) == [ok |-> TRUE, response |-> response]
Err(err)     == [ok |-> FALSE, err |-> err]

\* errors of the inner service and their Display text
Errors == {1, 2}
to_string(err) == IF err = 1 THEN "connection refused" ELSE "deadline exceeded"

Statuses == {200, 399, 400, 404, 499, 500, 599, 600}

Response(status, headers, size_hint) ==
    [status |-> status, headers |-> headers, size_hint |-> size_hint]

\* what the inner service may answer, per kind of middleware under test
HttpResults ==
    {Ok(Response(s, <<>>, None)) : s \in Statuses}
    \cup {Ok(Response(200, <<Header("x-bin", Opaque("ff")),
                             Header("content-type", Text("text/plain"))>>, Some(7)))}
    \cup {Err(e) : e \in Errors}

GrpcResults ==
    {Ok(Response(200, <<>>, None)),
     Ok(Response(200, <<Header("grpc-status", Text("0"))>>, None)),
     Ok(Response(200, <<Header("x-bin", Opaque("ff")),
                        Header("grpc-status", Text("13"))>>, None)),
     Ok(Response(200, <<Header("grpc-status", Text("abc"))>>, None)),
     Ok(Response(200, <<Header("grpc-status", Opaque("ff"))>>, None))}
    \cup {Err(e) : e \in Errors}

MetricsResults ==
    {Ok(Response(200, <<>>, None)),
     Ok(Response(404, <<Header("content-length", Text(<<"4", "2">>))>>, Some(7))),
     Ok(Response(500, <<Header("content-length", Text(<<"a", "b", "c">>))>>, Some(7)))}
    \cup {Err(2)}

Results(mw) ==
    CASE mw = "metrics" -> MetricsResults
      [] mw = "grpc"    -> GrpcResults
      [] OTHER          -> HttpResults

Uri(scheme, host, port, path, query) ==
    [scheme |-> scheme, host |-> host, port |-> port, path |-> path, query |-> query]

Request(method, version, uri, headers, route, size_hint) ==
    [method |-> method, version |-> version, uri |-> uri, headers |-> headers,
     route |-> route, size_hint |-> size_hint]

\* the paths /users/42 and /greet.Greeter/SayHello, character by character
PATH_USERS == <<"/", "u", "s", "e", "r", "s", "/", "4", "2">>
PATH_GREET ==
    <<"/", "g", "r", "e", "e", "t", ".", "G", "r", "e", "e", "t", "e", "r", "/", "S", "a", "y", "H", "e", "l", "l", "o">>

Requests ==
    {Request("GET", "HTTP/1.1", Uri(None, None, None, PATH_USERS, None),
             <<Header("host", Text("example.com")),
               Header("x-forwarded-proto", Text("https")),
               Header("traceparent", Text(<<"span", 0>>))>>, Some("/users/:id"), Some(0)),
     Request("PROPFIND", "HTTP/2.0",
             Uri(Some("https"), Some("example.com"), Some(8443),
                 PATH_GREET, Some("a=1")),
             <<Header("content-length", Text(<<"4", "2">>)), Header("x-bin", Opaque("ff"))>>,
             None, None)}

\* the middlewares: metrics::Http, trace::Http, trace::Grpc, trace::HttpClient
\* and the crate root's OtelTrace
Layers ==
    {[mw |-> m, kind |-> k] : m \in {"metrics", "http", "grpc"}, k \in {"client", "server"}}
    \cup {[mw |-> "http_client", kind |-> "client"]}
    \cup {[mw |-> "otel_trace", kind |-> "server"]}

\* ---------------------------------------------------- bytes and characters
\* a byte string or a str is the sequence of its characters; "0xff" stands
\* for a byte that is not part of any UTF-8 text
NonUtf8 == {"0xff"}

UpperCase == <<"A", "B", "C", "D", "E", "F", "G", "H", "I", "J", "K", "L", "M",
               "N", "O", "P", "Q", "R", "S", "T", "U", "V", "W", "X", "Y", "Z">>
LowerCase == <<"a", "b", "c", "d", "e", "f", "g", "h", "i", "j", "k", "l", "m",
               "n", "o", "p", "q", "r", "s", "t", "u", "v", "w", "x", "y", "z">>

\* u8::to_ascii_lowercase
to_ascii_lowercase(c) ==
    IF \E i \in DOMAIN UpperCase : UpperCase[i] = c
    THEN LowerCase[CHOOSE i \in DOMAIN UpperCase : UpperCase[i] = c]
    ELSE c

\* u8::eq_ignore_ascii_case
eq_ignore_ascii_case(a, b) == to_ascii_lowercase(a) = to_ascii_lowercase(b)

\* the position of the first c in s (0 if there is none)
position(s, c) ==
    IF \E i \in DOMAIN s : s[i] = c
    THEN CHOOSE i \in DOMAIN s : s[i] = c /\ \A j \in 1..(i - 1) : s[j] # c
    ELSE 0

\* slice::split(|c| *c == sep): the pieces between the separators, in order
RECURSIVE split(_, _)
split(s, sep) ==
    IF position(s, sep) = 0 THEN <<s>>
    ELSE <<SubSeq(s, 1, position(s, sep) - 1)>>
         \o split(SubSeq(s, position(s, sep) + 1, Len(s)), sep)

\* str::split_once: the parts before and after the first c
split_once(s, c) ==
    IF position(s, c) = 0 THEN None
    ELSE Some(<<SubSeq(s, 1, position(s, c) - 1), SubSeq(s, position(s, c) + 1, Len(s))>>)

\* str::trim_start_matches with one character stripped, not all of them
trim_start_once(s, c) == IF s # <<>> /\ Head(s) = c THEN Tail(s) ELSE s

\* str::trim_start_matches: every leading c is stripped
RECURSIVE trim_start_matches(_, _)
trim_start_matches(s, c) ==
    IF s # <<>> /\ Head(s) = c THEN trim_start_matches(Tail(s), c) ELSE s

WhiteSpace == {" ", "\t"}

\* slice::trim_ascii: leading and trailing ASCII whitespace removed
RECURSIVE trim_ascii(_)
trim_ascii(s) ==
    IF s = <<>> THEN s
    ELSE IF Head(s) \in WhiteSpace THEN trim_ascii(Tail(s))
    ELSE IF s[Len(s)] \in WhiteSpace THEN trim_ascii(SubSeq(s, 1, Len(s) - 1))
    ELSE s

\* std::str::from_utf8(..).ok()
from_utf8(bytes) ==
    IF \E i \in DOMAIN bytes : bytes[i] \in NonUtf8 THEN None ELSE Some(bytes)

\* a header value made of these bytes: text when every byte is visible ASCII
Bytes(s) == [text |-> \A i \in DOMAIN s : s[i] \notin NonUtf8, s |-> s]

Digits == <<"0", "1", "2", "3", "4", "5", "6", "7", "8", "9">>

RECURSIVE decimal(_, _)
\* the number written by the digits s, after the digits already read as acc
decimal(s, acc) ==
    IF s = <<>> THEN acc
    ELSE decimal(Tail(s), 10 * acc + (position(Digits, Head(s)) - 1))

\* u16::from_str(..).ok(): decimal digits after an optional plus sign, at most 65535
u16_from_str(s) ==
    LET digits == IF s # <<>> /\ Head(s) = "+" THEN Tail(s) ELSE s
    IN  IF digits = <<>> \/ \E i \in DOMAIN digits : position(Digits, digits[i]) = 0
        THEN None
        ELSE IF decimal(digits, 0) > 65535 THEN None
        ELSE Some(decimal(digits, 0))

\* str::parse::<u64>(..).ok(): decimal digits after an optional plus sign (the
\* numbers written here stay far below 2^64)
u64_from_str(s) ==
    LET digits == IF s # <<>> /\ Head(s) = "+" THEN Tail(s) ELSE s
    IN  IF digits = <<>> \/ \E i \in DOMAIN digits : position(Digits, digits[i]) = 0
        THEN None
        ELSE Some(decimal(digits, 0))

\* ------------------------------------------------------------ http helpers
\* HeaderMap::get: the first value stored under the name
RECURSIVE HeaderGet(_, _)
HeaderGet(headers, name) ==
    IF headers = <<>> THEN None
    ELSE IF Head(headers).name = name THEN Some(Head(headers).value)
    ELSE HeaderGet(Tail(headers), name)

\* HeaderValue::to_str
to_str(value) == IF value.text THEN Some(value.s) ELSE None

\* str::parse::<i32> of the grpc-status values written here
parse(s) ==
    CASE s = "0"  -> Some(0)
      [] s = "7"  -> Some(7)
      [] s = "13" -> Some(13)
      [] s = "42" -> Some(42)
      [] OTHER    -> None

http_method(method) ==
    IF method \in {"GET", "POST", "PUT", "DELETE", "HEAD", "OPTIONS", "CONNECT", "PATCH", "TRACE"}
    THEN method
    ELSE "_OTHER"

http_version(version) ==
    CASE version = "HTTP/0.9" -> Some("0.9")
      [] version = "HTTP/1.0" -> Some("1.0")
      [] version = "HTTP/1.1" -> Some("1.1")
      [] version = "HTTP/2.0" -> Some("2")
      [] version = "HTTP/3.0" -> Some("3")
      [] OTHER                -> None

network_protocol_version(version) == http_version(version)

\* the exact size hint asked first, the Content-Length header only without one
http_size_hint_first(message) ==
    LET header == HeaderGet(message.headers, "content-length")
        text   == IF header = None THEN None ELSE to_str(header[1])
        number == IF text = None THEN None ELSE u64_from_str(text[1])
    IN  IF message.size_hint # None THEN message.size_hint ELSE number

\* Content-Length when present, text and a number; else the body's exact size hint
http_size(message) ==
    LET header == HeaderGet(message.headers, "content-length")
        text   == IF header = None THEN None ELSE to_str(header[1])
        number == IF text = None THEN None ELSE u64_from_str(text[1])
    IN  IF number # None THEN number ELSE message.size_hint

http_request_size(req)  == http_size(req)
http_response_size(res) == http_size(res)

\* the route pattern the routing framework left in the request extensions
http_route(req) == req.route

\* scheme of a received request, from the forwarding headers; the requests
\* modelled carry no Forwarded header, so X-Forwarded-Proto decides it
http_url_scheme(req) ==
    LET header == HeaderGet(req.headers, "x-forwarded-proto")
    IN  IF header = None THEN None ELSE to_str(header[1])

\* StatusCode::is_client_error / is_server_error
is_client_error(status) == 400 <= status /\ status < 500
is_server_error(status) == 500 <= status /\ status < 600

\* --------------------------------------------------- util: Forwarded header
PREFIX_HOST  == <<"h", "o", "s", "t", "=">>
PREFIX_PROTO == <<"p", "r", "o", "t", "o", "=">>

\* a prefix matched byte for byte, the case of the letters included
strip_prefix_exact(self, prefix) ==
    IF Len(self) < Len(prefix) THEN None
    ELSE IF \A i \in DOMAIN prefix : self[i] = prefix[i]
    THEN Some(SubSeq(self, Len(prefix) + 1, Len(self)))
    ELSE None

strip_prefix_ignore_ascii_case(self, prefix) ==
    IF Len(self) < Len(prefix) THEN None
    ELSE IF \A i \in DOMAIN prefix : eq_ignore_ascii_case(self[i], prefix[i])
    THEN Some(SubSeq(self, Len(prefix) + 1, Len(self)))
    ELSE None

Forwarded(host, proto) == [host |-> host, proto |-> proto]

RECURSIVE forwarded_directives(_, _)
\* the loop over the directives of one hop: a later host= or proto= replaces
\* what an earlier one gave
forwarded_directives(directives, found) ==
    IF directives = <<>> THEN found
    ELSE LET directive == trim_ascii(Head(directives))
             directive_host  == strip_prefix_ignore_ascii_case(directive, PREFIX_HOST)
             directive_proto == strip_prefix_ignore_ascii_case(directive, PREFIX_PROTO)
             host  == IF directive_host # None THEN from_utf8(directive_host[1])
                      ELSE found.host
             proto == IF directive_proto # None THEN from_utf8(directive_proto[1])
                      ELSE found.proto
         IN  forwarded_directives(Tail(directives), Forwarded(host, proto))

\* the hop read is the first one of the list
parse_header_value_first_hop(header_value) ==
    LET proxies == split(header_value.s, ",")
    IN  forwarded_directives(split(proxies[1], ";"), Forwarded(None, None))

\* Forwarded::parse_header_value
parse_header_value(header_value) ==
    LET proxies == split(header_value.s, ",")
        proxy   == proxies[Len(proxies)]
    IN  forwarded_directives(split(proxy, ";"), Forwarded(None, None))

\* ------------------------------------------ util: HttpRequestAttributes
HTTP_DEFAULT_PORT  == 80
HTTPS_DEFAULT_PORT == 443

S_HTTP  == <<"h", "t", "t", "p">>
S_HTTPS == <<"h", "t", "t", "p", "s">>

HttpRequestAttributes(url_scheme, server_address, server_port) ==
    [url_scheme |-> url_scheme, server_address |-> server_address,
     server_port |-> server_port]

\* the text of a header of the request, when it is there and is text
header_str(request, name) ==
    LET value == HeaderGet(request.headers, name)
    IN  IF value = None THEN None ELSE to_str(value[1])

\* (host, proto) of the Forwarded header, (None, None) without one
recv_forwarded(request) ==
    LET value == HeaderGet(request.headers, "forwarded")
    IN  IF value = None THEN Forwarded(None, None) ELSE parse_header_value(value[1])

\* the Host header asked before X-Forwarded-Host
recv_host_host_first(request) ==
    LET forwarded_host == recv_forwarded(request).host
    IN  IF forwarded_host # None THEN forwarded_host
        ELSE IF header_str(request, "host") # None
        THEN header_str(request, "host")
        ELSE header_str(request, "x-forwarded-host")

\* host: Forwarded, or else X-Forwarded-Host, or else Host
recv_host(request) ==
    LET forwarded_host == recv_forwarded(request).host
    IN  IF forwarded_host # None THEN forwarded_host
        ELSE IF header_str(request, "x-forwarded-host") # None
        THEN header_str(request, "x-forwarded-host")
        ELSE header_str(request, "host")

\* url_scheme: Forwarded, or else X-Forwarded-Proto
recv_url_scheme(request) ==
    LET forwarded_proto == recv_forwarded(request).proto
    IN  IF forwarded_proto # None THEN forwarded_proto
        ELSE header_str(request, "x-forwarded-proto")

default_port(url_scheme) ==
    IF url_scheme = Some(S_HTTP) THEN Some(HTTP_DEFAULT_PORT)
    ELSE IF url_scheme = Some(S_HTTPS) THEN Some(HTTPS_DEFAULT_PORT)
    ELSE None

\* HttpRequestAttributes::from_recv_request
from_recv_request(request) ==
    LET host       == recv_host(request)
        url_scheme == recv_url_scheme(request)
        parts      == IF host = None THEN None ELSE split_once(host[1], ":")
        server_address == IF parts = None THEN host ELSE Some(parts[1][1])
        port_str   == IF parts = None THEN None ELSE Some(parts[1][2])
        parsed     == IF port_str = None THEN None ELSE u16_from_str(port_str[1])
        server_port == IF parsed # None THEN parsed ELSE default_port(url_scheme)
    IN  HttpRequestAttributes(url_scheme, server_address, server_port)

\* HttpRequestAttributes::from_sent_request
from_sent_request(request) ==
    LET url_scheme     == request.uri.scheme
        server_address == request.uri.host
        server_port    == IF request.uri.port # None THEN request.uri.port
                          ELSE default_port(url_scheme)
    IN  HttpRequestAttributes(url_scheme, server_address, server_port)

\* ------------------------------------------------- propagation adapters
\* HeaderName::from_str: a valid token, stored in lower case; the empty key and
\* a key with a space or a line break are no header names
HeaderName_from_str(key) ==
    CASE key \in {"traceparent", "Traceparent"} -> Some("traceparent")
      [] key \in {"tracestate", "TraceState"}   -> Some("tracestate")
      [] key \in {"x-custom", "X-Custom"}       -> Some("x-custom")
      [] OTHER                                  -> None

\* HeaderValue::from_str: every byte but the control bytes is accepted; the
\* value is text (to_str succeeds) only when all its bytes are visible ASCII
HeaderValue_from_str(value) ==
    IF value.bytes = "control"
    THEN None
    ELSE Some([text |-> value.bytes = "ascii", s |-> value.s])

RECURSIVE HeaderRemove(_, _)
HeaderRemove(headers, name) ==
    IF headers = <<>> THEN <<>>
    ELSE IF Head(headers).name = name THEN HeaderRemove(Tail(headers), name)
    ELSE <<Head(headers)>> \o HeaderRemove(Tail(headers), name)

\* the value added after the values the name already has
HeaderInsert_append(headers, name, value) == Append(headers, Header(name, value))

\* HeaderMap::insert: the name now maps to this one value
HeaderInsert(headers, name, value) ==
    Append(HeaderRemove(headers, name), Header(name, value))

HeaderInjector_set(headers, key, value) ==
    LET header_name  == HeaderName_from_str(key)
        header_value == HeaderValue_from_str(value)
    IN  IF header_name # None /\ header_value # None
        THEN HeaderInsert(headers, header_name[1], header_value[1])
        ELSE headers

\* the name looked up as it is written, the case of its letters included
HeaderExtractor_get_exact(headers, key) ==
    LET header_value == HeaderGet(headers, key)
    IN  IF header_value = None THEN None ELSE to_str(header_value[1])

\* HeaderExtractor::get: the name is looked up in its lower-case form
HeaderExtractor_get(headers, key) ==
    LET header_name  == HeaderName_from_str(key)
        header_value == IF header_name = None THEN None
                        ELSE HeaderGet(headers, header_name[1])
    IN  IF header_value = None THEN None ELSE to_str(header_value[1])

\* HeaderExtractor::keys: the names stored in the container
HeaderExtractor_keys(headers) == {headers[i].name : i \in DOMAIN headers}

\* a propagator that leaves its own header alone in the container
inject_context_alone(context, headers) ==
    HeaderInjector_set(<<>>, "traceparent", AsciiString(context))

\* a propagator that writes nothing
inject_context_nothing(context, headers) == headers

\* the process-wide propagator: writes and reads the traceparent header
inject_context(context, headers) ==
    HeaderInjector_set(headers, "traceparent", AsciiString(context))

extract(headers) == HeaderExtractor_get(headers, "traceparent")

\* ------------------------------------------------------------------ spans
NoSpan == [fields |-> [f \in {} |-> Empty], attrs |-> <<>>, parent |-> None,
           opened |-> 0, closed |-> 0, late |-> FALSE]

\* tracing::span!: the declared fields, each with a value or Empty
span_new(fields) == [NoSpan EXCEPT !.fields = fields, !.opened = 1]

\* Span::record: a field the span does not declare is ignored
record(span, field, value) ==
    IF field \in DOMAIN span.fields
    THEN [span EXCEPT !.fields[field] = value, !.late = @ \/ span.closed > 0]
    ELSE span

\* OpenTelemetrySpanExt::set_attribute
set_attribute(span, name, value) ==
    [span EXCEPT !.attrs = Append(@, <<name, value>>), !.late = @ \/ span.closed > 0]

\* the extracted context thrown away
set_parent_ignored(span, context) == span

\* OpenTelemetrySpanExt::set_parent
set_parent(span, context) == [span EXCEPT !.parent = context]

\* the context a span hands to the propagator: the identity of its request
span_context(id) == <<"span", id>>

RECURSIVE record_headers_until_error(_, _, _)
\* a loop over the headers that ends at the first value that is not text
record_headers_until_error(span, prefix, headers) ==
    IF headers = <<>> THEN span
    ELSE LET h == Head(headers)
         IN  IF to_str(h.value) # None
             THEN record_headers_until_error(
                      set_attribute(span, <<prefix, h.name>>, to_str(h.value)[1]),
                      prefix, Tail(headers))
             ELSE span

\* for (name, value) in headers: set_attribute(prefix + name, value) when text
RECURSIVE record_headers(_, _, _)
record_headers(span, prefix, headers) ==
    IF headers = <<>> THEN span
    ELSE LET h == Head(headers)
             s == IF to_str(h.value) # None
                  THEN set_attribute(span, <<prefix, h.name>>, to_str(h.value)[1])
                  ELSE span
         IN  record_headers(s, prefix, Tail(headers))

opt_value(option) == IF option = None THEN Empty ELSE Str(option[1])

\* what one handler did, in order: an operation name, and for a measurement
\* its value and attribute set
Event(op) == [op |-> op, value |-> 0, attributes |-> <<>>]
Measurement(op, value, attributes) == [op |-> op, value |-> value, attributes |-> attributes]

\* ------------------------------------------------------------ trace::Http
span_kind(kind) == IF kind = "client" THEN "client" ELSE "server"

http_make_request_span(id, kind, request) ==
    LET created ==
            span_new(("error.message" :> Empty)
                  @@ ("http.request.method" :> Str(http_method(request.method)))
                  @@ ("http.response.status_code" :> Empty)
                  @@ ("network.protocol.name" :> Str("http"))
                  @@ ("network.protocol.version" :> opt_value(http_version(request.version)))
                  @@ ("otel.kind" :> Str(span_kind(kind)))
                  @@ ("otel.status_code" :> Empty)
                  @@ ("url.full" :> Empty)
                  @@ ("url.path" :> Str(request.uri.path))
                  @@ ("url.query" :> Empty)
                  @@ ("url.scheme" :> Empty))
        headers == record_headers(created, "http.request.header.", request.headers)
        query   == IF request.uri.query # None
                   THEN record(headers, "url.query", Str(request.uri.query[1]))
                   ELSE headers
    IN  IF kind = "client"
        THEN LET full   == record(query, "url.full", Str(request.uri))
                 scheme == IF request.uri.scheme # None
                           THEN record(full, "url.scheme", Str(request.uri.scheme[1]))
                           ELSE full
             IN  [span    |-> scheme,
                  request |-> [request EXCEPT
                                 !.headers = inject_context(span_context(id), @)],
                  events  |-> <<Event("span!"), Event("inject_context")>>]
        ELSE LET route  == IF http_route(request) # None
                           THEN record(query, "http.route", Str(http_route(request)[1]))
                           ELSE query
                 scheme == IF http_url_scheme(request) # None
                           THEN record(route, "url.scheme", Str(http_url_scheme(request)[1]))
                           ELSE route
             IN  [span    |-> set_parent(scheme, extract(request.headers)),
                  request |-> request,
                  events  |-> <<Event("span!"), Event("extract"), Event("set_parent")>>]

\* the client-error rule applied whatever the kind of the span
http_record_response_any_kind(span, kind, response) ==
    LET status  == record(span, "http.response.status_code", I64(response.status))
        headers == record_headers(status, "http.response.header.", response.headers)
        client  == IF is_client_error(response.status)
                   THEN record(headers, "otel.status_code", Str("ERROR"))
                   ELSE headers
    IN  IF is_server_error(response.status)
        THEN record(client, "otel.status_code", Str("ERROR"))
        ELSE client

http_record_response(span, kind, response) ==
    LET status  == record(span, "http.response.status_code", I64(response.status))
        headers == record_headers(status, "http.response.header.", response.headers)
        client  == IF kind = "client" /\ is_client_error(response.status)
                   THEN record(headers, "otel.status_code", Str("ERROR"))
                   ELSE headers
    IN  IF is_server_error(response.status)
        THEN record(client, "otel.status_code", Str("ERROR"))
        ELSE client

http_record_error(span, err) ==
    record(record(span, "otel.status_code", Str("ERROR")),
           "error.message", Str(to_string(err)))

\* ------------------------------------------------------------ trace::Grpc
grpc_make_request_span(id, kind, request) ==
    LET created ==
            span_new(("error.message" :> Empty)
                  @@ ("otel.kind" :> Empty)
                  @@ ("otel.name" :> Empty)
                  @@ ("otel.status_code" :> Empty)
                  @@ ("rpc.grpc.status_code" :> Empty)
                  @@ ("rpc.method" :> Empty)
                  @@ ("rpc.service" :> Empty)
                  @@ ("rpc.system" :> Str("grpc")))
        headers == record_headers(created, "rpc.grpc.request.metadata.", request.headers)
        okind   == record(headers, "otel.kind", Str(span_kind(kind)))
        path    == request.uri.path
        name    == trim_start_matches(path, "/")
        oname   == record(okind, "otel.name", Str(name))
        parts   == split_once(name, "/")
        named   == IF parts # None
                   THEN record(record(oname, "rpc.service", Str(parts[1][1])),
                               "rpc.method", Str(parts[1][2]))
                   ELSE oname
    IN  IF kind = "client"
        THEN [span    |-> named,
              request |-> [request EXCEPT
                             !.headers = inject_context(span_context(id), @)],
              events  |-> <<Event("span!"), Event("inject_context")>>]
        ELSE [span    |-> set_parent(named, extract(request.headers)),
              request |-> request,
              events  |-> <<Event("span!"), Event("extract"), Event("set_parent")>>]

\* a non-zero grpc-status taken for a failure of the span
grpc_record_response_status_error(span, response) ==
    LET headers      == record_headers(span, "rpc.grpc.response.metadata.", response.headers)
        header_value == HeaderGet(response.headers, "grpc-status")
    IN  IF header_value # None
        THEN IF to_str(header_value[1]) # None /\ parse(to_str(header_value[1])[1]) # None
             THEN LET code == parse(to_str(header_value[1])[1])[1]
                      coded == record(headers, "rpc.grpc.status_code", I64(code))
                  IN  IF code # 0 THEN record(coded, "otel.status_code", Str("ERROR"))
                      ELSE coded
             ELSE headers
        ELSE record(headers, "rpc.grpc.status_code", I64(0))

grpc_record_response(span, response) ==
    LET headers      == record_headers(span, "rpc.grpc.response.metadata.", response.headers)
        header_value == HeaderGet(response.headers, "grpc-status")
    IN  IF header_value # None
        THEN IF to_str(header_value[1]) # None /\ parse(to_str(header_value[1])[1]) # None
             THEN record(headers, "rpc.grpc.status_code",
                         I64(parse(to_str(header_value[1])[1])[1]))
             ELSE headers
        ELSE record(headers, "rpc.grpc.status_code", I64(0))

\* the status set, the message left out
grpc_record_error_no_message(span, err) ==
    record(span, "otel.status_code", Str("ERROR"))

grpc_record_error(span, err) ==
    record(record(span, "otel.status_code", Str("ERROR")),
           "error.message", Str(to_string(err)))

\* ------------------------------------------------------ trace::HttpClient
http_client_make_request_span(id, request) ==
    LET created ==
            span_new(("error.message" :> Empty)
                  @@ ("http.request.method" :> Str(request.method))
                  @@ ("http.response.status_code" :> Empty)
                  @@ ("network.protocol.name" :> Str("http"))
                  @@ ("network.protocol.version" :>
                          opt_value(network_protocol_version(request.version)))
                  @@ ("otel.status_code" :> Empty)
                  @@ ("url.full" :> Str(request.uri)))
        headers == record_headers(created, "http.request.header.", request.headers)
    IN  [span    |-> headers,
         request |-> [request EXCEPT !.headers = inject_context(span_context(id), @)],
         events  |-> <<Event("span!"), Event("inject_context")>>]

http_client_record_response(span, response) ==
    LET status  == record(span, "http.response.status_code", I64(response.status))
        headers == record_headers(status, "http.response.header.", response.headers)
    IN  IF is_client_error(response.status)
        THEN record(headers, "otel.status_code", Str("ERROR"))
        ELSE headers

http_client_record_error(span, err) ==
    record(record(span, "otel.status_code", Str("ERROR")),
           "error.message", Str(to_string(err)))

\* --------------------------------------------- trace: call, poll and drop
\* a call forwarded before the span is made
trace_call_forward_first(made) ==
    [span      |-> made.span,
     forwarded |-> made.request,
     events    |-> <<Event("span.enter"), Event("inner.call"), Event("span.exit"),
                     Event("make_request_span")>> \o made.events]

\* Http::call, Grpc::call, HttpClient::call: make the span, forward inside it
trace_call(made) ==
    [span      |-> made.span,
     forwarded |-> made.request,
     events    |-> <<Event("make_request_span")>> \o made.events
                     \o <<Event("span.enter"), Event("inner.call"), Event("span.exit")>>]

http_call(id, kind, req)   == trace_call(http_make_request_span(id, kind, req))
grpc_call(id, kind, req)   == trace_call(grpc_make_request_span(id, kind, req))
http_client_call(id, req)  == trace_call(http_client_make_request_span(id, req))

\* a poll that does not return early on Pending and takes it for a failure
http_poll_no_ready(span, kind, inner_poll) ==
    IF inner_poll = Pending
    THEN [span   |-> http_record_error(span, 1),
          output |-> Pending,
          events |-> <<Event("span.enter"), Event("inner.poll"),
                       Event("record_error"), Event("span.exit")>>]
    ELSE IF inner_poll.value.ok
    THEN [span   |-> http_record_response(span, kind, inner_poll.value.response),
          output |-> Ready(Ok(inner_poll.value.response)),
          events |-> <<Event("span.enter"), Event("inner.poll"),
                       Event("record_response"), Event("span.exit")>>]
    ELSE [span   |-> http_record_error(span, inner_poll.value.err),
          output |-> Ready(Err(inner_poll.value.err)),
          events |-> <<Event("span.enter"), Event("inner.poll"),
                       Event("record_error"), Event("span.exit")>>]

http_poll(span, kind, inner_poll) ==
    IF inner_poll = Pending
    THEN [span |-> span, output |-> Pending,
          events |-> <<Event("span.enter"), Event("inner.poll"), Event("span.exit")>>]
    ELSE IF inner_poll.value.ok
    THEN [span   |-> http_record_response(span, kind, inner_poll.value.response),
          output |-> Ready(Ok(inner_poll.value.response)),
          events |-> <<Event("span.enter"), Event("inner.poll"),
                       Event("record_response"), Event("span.exit")>>]
    ELSE [span   |-> http_record_error(span, inner_poll.value.err),
          output |-> Ready(Err(inner_poll.value.err)),
          events |-> <<Event("span.enter"), Event("inner.poll"),
                       Event("record_error"), Event("span.exit")>>]

\* a poll that records the status 0 while the inner future is not ready
grpc_poll_early_status(span, inner_poll) ==
    IF inner_poll = Pending
    THEN [span |-> record(span, "rpc.grpc.status_code", I64(0)), output |-> Pending,
          events |-> <<Event("span.enter"), Event("inner.poll"), Event("span.exit")>>]
    ELSE IF inner_poll.value.ok
    THEN [span   |-> grpc_record_response(span, inner_poll.value.response),
          output |-> Ready(Ok(inner_poll.value.response)),
          events |-> <<Event("span.enter"), Event("inner.poll"),
                       Event("record_response"), Event("span.exit")>>]
    ELSE [span   |-> grpc_record_error(span, inner_poll.value.err),
          output |-> Ready(Err(inner_poll.value.err)),
          events |-> <<Event("span.enter"), Event("inner.poll"),
                       Event("record_error"), Event("span.exit")>>]

grpc_poll(span, inner_poll) ==
    IF inner_poll = Pending
    THEN [span |-> span, output |-> Pending,
          events |-> <<Event("span.enter"), Event("inner.poll"), Event("span.exit")>>]
    ELSE IF inner_poll.value.ok
    THEN [span   |-> grpc_record_response(span, inner_poll.value.response),
          output |-> Ready(Ok(inner_poll.value.response)),
          events |-> <<Event("span.enter"), Event("inner.poll"),
                       Event("record_response"), Event("span.exit")>>]
    ELSE [span   |-> grpc_record_error(span, inner_poll.value.err),
          output |-> Ready(Err(inner_poll.value.err)),
          events |-> <<Event("span.enter"), Event("inner.poll"),
                       Event("record_error"), Event("span.exit")>>]

\* a poll that answers an inner error with an error of its own
http_client_poll_own_error(span, inner_poll) ==
    IF inner_poll = Pending
    THEN [span |-> span, output |-> Pending,
          events |-> <<Event("span.enter"), Event("inner.poll"), Event("span.exit")>>]
    ELSE IF inner_poll.value.ok
    THEN [span   |-> http_client_record_response(span, inner_poll.value.response),
          output |-> Ready(Ok(inner_poll.value.response)),
          events |-> <<Event("span.enter"), Event("inner.poll"),
                       Event("record_response"), Event("span.exit")>>]
    ELSE [span   |-> http_client_record_error(span, inner_poll.value.err),
          output |-> Ready(Err(1)),
          events |-> <<Event("span.enter"), Event("inner.poll"),
                       Event("record_error"), Event("span.exit")>>]

http_client_poll(span, inner_poll) ==
    IF inner_poll = Pending
    THEN [span |-> span, output |-> Pending,
          events |-> <<Event("span.enter"), Event("inner.poll"), Event("span.exit")>>]
    ELSE IF inner_poll.value.ok
    THEN [span   |-> http_client_record_response(span, inner_poll.value.response),
          output |-> Ready(Ok(inner_poll.value.response)),
          events |-> <<Event("span.enter"), Event("inner.poll"),
                       Event("record_response"), Event("span.exit")>>]
    ELSE [span   |-> http_client_record_error(span, inner_poll.value.err),
          output |-> Ready(Err(inner_poll.value.err)),
          events |-> <<Event("span.enter"), Event("inner.poll"),
                       Event("record_error"), Event("span.exit")>>]

\* ------------------------------------------------- crate root: OtelTrace
make_span(req) ==
    LET created ==
            span_new(("http.request.method" :> Str(req.method))
                  @@ ("http.response.status_code" :> Empty)
                  @@ ("url.path" :> Str(req.uri.path))
                  @@ ("url.query" :> opt_value(req.uri.query)))
    IN  record_headers(created, "http.request.header.", req.headers)

update_span(span, res) ==
    record_headers(record(span, "http.response.status_code", I64(res.status)),
                   "http.response.header.", res.headers)

\* OtelTrace::call: make the span, forward the call
otel_trace_call(req) ==
    [span      |-> make_span(req),
     forwarded |-> req,
     events    |-> <<Event("make_span"), Event("inner.call")>>]

\* a poll that keeps the span entered when the inner future is not ready
otel_trace_poll_held(span, inner_poll) ==
    IF inner_poll = Pending
    THEN [span |-> span, output |-> Pending,
          events |-> <<Event("span.enter"), Event("inner.poll")>>]
    ELSE IF inner_poll.value.ok
    THEN [span   |-> update_span(span, inner_poll.value.response),
          output |-> Ready(Ok(inner_poll.value.response)),
          events |-> <<Event("span.enter"), Event("inner.poll"),
                       Event("update_span"), Event("span.exit")>>]
    ELSE [span   |-> span,
          output |-> Ready(Err(inner_poll.value.err)),
          events |-> <<Event("span.enter"), Event("inner.poll"), Event("span.exit")>>]

\* ResponseFuture::poll of OtelTrace
otel_trace_poll(span, inner_poll) ==
    IF inner_poll = Pending
    THEN [span |-> span, output |-> Pending,
          events |-> <<Event("span.enter"), Event("inner.poll"), Event("span.exit")>>]
    ELSE IF inner_poll.value.ok
    THEN [span   |-> update_span(span, inner_poll.value.response),
          output |-> Ready(Ok(inner_poll.value.response)),
          events |-> <<Event("span.enter"), Event("inner.poll"),
                       Event("update_span"), Event("span.exit")>>]
    ELSE [span   |-> span,
          output |-> Ready(Err(inner_poll.value.err)),
          events |-> <<Event("span.enter"), Event("inner.poll"), Event("span.exit")>>]

\* a dropped future whose span handle is leaked: the span stays open
trace_drop_leak(span) == span

\* a span closed at the drop of the future and again at the drop of its handle
trace_drop_twice(span) == [span EXCEPT !.closed = @ + 2]

\* dropping a trace ResponseFuture drops its Span handle, which closes the span
trace_drop(span) == [span EXCEPT !.closed = @ + 1]

\* ------------------------------------------------------------ metrics::Http
NoState == [start |-> 0, request_body_size |-> None, attributes |-> <<>>,
            active_requests_attributes |-> 0]

ResponseMetricState_new(side, req, instant) ==
    LET method  == <<<<"http.request.method", Str(http_method(req.method))>>>>
        address == IF req.uri.host # None
                   THEN <<<<"server.address", Str(req.uri.host[1])>>>> ELSE <<>>
        port    == IF req.uri.port # None
                   THEN <<<<"server.port", I64(req.uri.port[1])>>>> ELSE <<>>
        url_scheme == IF side = "client" THEN req.uri.scheme ELSE http_url_scheme(req)
        scheme  == IF url_scheme # None
                   THEN <<<<"url.scheme", Str(url_scheme[1])>>>> ELSE <<>>
        prefix  == method \o address \o port \o scheme
        name    == <<<<"network.protocol.name", Str("http")>>>>
        version == IF http_version(req.version) # None
                   THEN <<<<"network.protocol.version", Str(http_version(req.version)[1])>>>>
                   ELSE <<>>
        route   == IF http_route(req) # None
                   THEN <<<<"http.route", Str(http_route(req)[1])>>>> ELSE <<>>
    IN  [start                      |-> instant,
         request_body_size          |-> http_request_size(req),
         attributes                 |-> prefix \o name \o version \o route,
         active_requests_attributes |-> Len(prefix)]

\* no outcome attribute for a failed request
push_response_attributes_ok_only(state, res) ==
    IF res.ok
    THEN [state EXCEPT !.attributes =
              Append(@, <<"http.response.status_code", I64(res.response.status)>>)]
    ELSE state

\* the outcome attribute written over the last attribute of the list
push_response_attributes_overwrite(state, res) ==
    IF res.ok
    THEN [state EXCEPT !.attributes =
              SubSeq(@, 1, Len(@) - 1)
              \o <<<<"http.response.status_code", I64(res.response.status)>>>>]
    ELSE [state EXCEPT !.attributes =
              SubSeq(@, 1, Len(@) - 1) \o <<<<"error.type", Str(to_string(res.err))>>>>]

\* the outcome attribute put at the head of the list
push_response_attributes_front(state, res) ==
    IF res.ok
    THEN [state EXCEPT !.attributes =
              <<<<"http.response.status_code", I64(res.response.status)>>>> \o @]
    ELSE [state EXCEPT !.attributes = <<<<"error.type", Str(to_string(res.err))>>>> \o @]

push_response_attributes(state, res) ==
    IF res.ok
    THEN [state EXCEPT !.attributes =
              Append(@, <<"http.response.status_code", I64(res.response.status)>>)]
    ELSE [state EXCEPT !.attributes = Append(@, <<"error.type", Str(to_string(res.err))>>)]

\* the elapsed time taken as the clock reading, the start not subtracted
elapsed_seconds_from_epoch(state, instant) == instant

elapsed_seconds(state, instant) == instant - state.start

attributes(state) == state.attributes

\* the whole attribute list given to the active-request counter
active_requests_attributes_all(state) == state.attributes

active_requests_attributes(state) ==
    SubSeq(state.attributes, 1, state.active_requests_attributes)

\* Http::call: capture the state, forward the call, count the request as active
metrics_call(side, req, instant) ==
    LET state == ResponseMetricState_new(side, req, instant)
    IN  [state     |-> state,
         forwarded |-> req,
         events    |-> <<Event("ResponseMetricState::new"), Event("inner.call"),
                         Measurement("active_requests.add", 1,
                                     active_requests_attributes(state))>>]

\* the response size recorded for every result, 0 when there is none to derive
record_response_body_size_always(state, inner_response) ==
    <<Measurement("response_body_size.record",
                  IF inner_response.ok /\ http_response_size(inner_response.response) # None
                  THEN http_response_size(inner_response.response)[1] ELSE 0,
                  attributes(state))>>

\* ResponseFuture::poll, `if let Ok(response)`: the response size, if derivable
record_response_body_size(state, inner_response) ==
    IF inner_response.ok /\ http_response_size(inner_response.response) # None
    THEN <<Measurement("response_body_size.record",
                       http_response_size(inner_response.response)[1], attributes(state))>>
    ELSE <<>>

\* ResponseFuture::poll, `if let Some(request_body_size)`: the captured size
record_request_body_size(state) ==
    IF state.request_body_size # None
    THEN <<Measurement("request_body_size.record", state.request_body_size[1],
                       attributes(state))>>
    ELSE <<>>

\* a poll that decrements the counter and records the sizes before the duration
metrics_poll_duration_last(state, inner_poll, instant) ==
    IF inner_poll = Pending
    THEN [state |-> state, output |-> Pending, events |-> <<Event("inner.poll")>>]
    ELSE LET inner_response == inner_poll.value
             duration == elapsed_seconds(state, instant)
             pushed   == push_response_attributes(state, inner_response)
         IN  [state  |-> pushed,
              output |-> Ready(inner_response),
              events |-> <<Event("inner.poll"),
                           Event("push_response_attributes"),
                           Measurement("active_requests.add", -1,
                                       active_requests_attributes(pushed))>>
                         \o record_request_body_size(pushed)
                         \o record_response_body_size(pushed, inner_response)
                         \o <<Measurement("request_duration.record", duration,
                                          attributes(pushed)),
                              Event("Poll::Ready")>>]

\* ResponseFuture::poll
metrics_poll(state, inner_poll, instant) ==
    IF inner_poll = Pending
    THEN [state |-> state, output |-> Pending, events |-> <<Event("inner.poll")>>]
    ELSE LET inner_response == inner_poll.value
             duration == elapsed_seconds(state, instant)
             pushed   == push_response_attributes(state, inner_response)
         IN  [state  |-> pushed,
              output |-> Ready(inner_response),
              events |-> <<Event("inner.poll"),
                           Event("push_response_attributes"),
                           Measurement("request_duration.record", duration,
                                       attributes(pushed)),
                           Measurement("active_requests.add", -1,
                                       active_requests_attributes(pushed))>>
                         \o record_request_body_size(pushed)
                         \o record_response_body_size(pushed, inner_response)
                         \o <<Event("Poll::Ready")>>]

\* dropping a metrics ResponseFuture: no Drop impl, nothing is recorded
metrics_drop(state) == <<>>

\* a readiness check that always reports ready
poll_ready_always(inner_ready) == Ready([ok |-> TRUE])

\* poll_ready of every middleware: the inner service's answer
poll_ready(inner_ready) == inner_ready

\* ------------------------------------------------------------------ state
VARIABLES
    layer,            \* the middleware under test: which one, and its side
    now,              \* the monotonic clock (Instant::now)
    ready,            \* the last poll_ready: the inner answer and what was returned
    phase,            \* per request: idle, inflight, resolved, cancelled, done
    polls,            \* per request: polls of the response future that returned Pending
    received,         \* per request: the request the middleware was called with
    forwarded,        \* per request: the request handed to the inner service
    state,            \* per request: ResponseFuture.state (metrics)
    span,             \* per request: ResponseFuture.span (trace)
    inner,            \* per request: what the inner future answered to the last poll
    output,           \* per request: what the response future returned to the last poll
    events,           \* per request: the operations performed for it, in order
    called_at,        \* per request: the clock when call was made
    resolved_at,      \* per request: the clock when the inner future resolved
    active_requests,  \* the accumulated value of the active-request counter
    probe,            \* one application of a pure function: its input and its output
    wiring            \* the layers, services and response futures built on one meter

vars == <<wiring, probe, layer, now, ready, phase, polls, received, forwarded, state, span,
          inner, output, events, called_at, resolved_at, active_requests>>

Idle == [idle |-> TRUE]
OkUnit == [ok |-> TRUE]
ReadyAnswers == {Pending, Ready(OkUnit), Ready(Err(1))}

RECURSIVE CounterDelta(_)
CounterDelta(evs) ==
    IF evs = <<>> THEN 0
    ELSE (IF Head(evs).op = "active_requests.add" THEN Head(evs).value ELSE 0)
         + CounterDelta(Tail(evs))

\* ------------------------------------------ inputs of the pure functions
MaxHops       == 2     \* hops of a Forwarded header value
MaxDirectives == 2     \* directives of its last hop

NoProbe == [fn |-> "none", input |-> Idle, done |-> FALSE, output |-> Idle]
Probe(fn, input) == [fn |-> fn, input |-> input, done |-> FALSE, output |-> Idle]

\* the sequences over S with lo to hi elements
SeqsOf(S, lo, hi) == UNION {[1..k -> S] : k \in lo..hi}

RECURSIVE Join(_, _)
\* the byte strings of parts, one after the other, sep between two of them
Join(parts, sep) ==
    IF parts = <<>> THEN <<>>
    ELSE IF Len(parts) = 1 THEN parts[1]
    ELSE parts[1] \o <<sep>> \o Join(Tail(parts), sep)

\* a directive of a Forwarded hop: its bytes, and what it is to do to the host
\* and to the proto read so far: None leaves it, Some(x) makes it x
Directive(bytes, host, proto) == [bytes |-> bytes, host |-> host, proto |-> proto]

D_HOST_A      == Directive(<<"h", "o", "s", "t", "=", "a">>, Some(Some(<<"a">>)), None)
D_HOST_UPPER  == Directive(<<"H", "O", "S", "T", "=", "B">>, Some(Some(<<"B">>)), None)
D_PROTO_HTTP  == Directive(<<" ", "p", "r", "o", "t", "o", "=", "h", "t", "t", "p">>, None, Some(Some(<<"h", "t", "t", "p">>)))
D_PROTO_UPPER == Directive(<<"P", "r", "o", "t", "o", "=", "H", "T", "T", "P", "S">>, None, Some(Some(<<"H", "T", "T", "P", "S">>)))
D_PROTO_BAD   == Directive(<<"p", "r", "o", "t", "o", "=", "0xff">>, None, Some(None))
D_FOR         == Directive(<<"f", "o", "r", "=", "x">>, None, None)
D_SHORT       == Directive(<<"h", "o", "s">>, None, None)
D_EMPTY       == Directive(<<>>, None, None)

Directives ==
    {D_HOST_A, D_HOST_UPPER, D_PROTO_HTTP, D_PROTO_UPPER, D_PROTO_BAD, D_FOR, D_SHORT, D_EMPTY}

\* the directives of the examples: for=192.0.2.60, proto=http, Proto=https,
\* Proto=HTTPS, by=203.0.113.43
D_FOR_ADDR ==
    Directive(<<"f", "o", "r", "=", "1", "9", "2", ".", "0", ".", "2", ".", "6", "0">>,
              None, None)
D_BY_ADDR ==
    Directive(<<"b", "y", "=", "2", "0", "3", ".", "0", ".", "1", "1", "3", ".", "4", "3">>,
              None, None)
D_PROTO_PLAIN == Directive(<<"p", "r", "o", "t", "o", "=", "h", "t", "t", "p">>, None, Some(Some(<<"h", "t", "t", "p">>)))
D_PROTO_MIXED == Directive(<<"P", "r", "o", "t", "o", "=", "h", "t", "t", "p", "s">>, None, Some(Some(<<"h", "t", "t", "p", "s">>)))

ForwardedInput(earlier, last) == [earlier |-> earlier, last |-> last]

\* for=192.0.2.60;proto=http;by=203.0.113.43
EXAMPLE_FOR_PROTO_BY == ForwardedInput(<<>>, <<D_FOR_ADDR, D_PROTO_PLAIN, D_BY_ADDR>>)
\* Proto=https;by=203.0.113.43
EXAMPLE_PROTO_BY == ForwardedInput(<<>>, <<D_PROTO_MIXED, D_BY_ADDR>>)
\* Proto=HTTPS;by=203.0.113.43
EXAMPLE_UPPER_PROTO_BY == ForwardedInput(<<>>, <<D_PROTO_UPPER, D_BY_ADDR>>)

\* the earlier hops have one directive each, the last hop up to MaxDirectives
ForwardedInputs ==
    {ForwardedInput(earlier, last) :
        earlier \in SeqsOf(Directives, 0, MaxHops - 1),
        last \in SeqsOf(Directives, 1, MaxDirectives)}
    \cup {EXAMPLE_FOR_PROTO_BY, EXAMPLE_PROTO_BY, EXAMPLE_UPPER_PROTO_BY}

\* the bytes of one hop: its directives separated by semicolons
HopBytes(directives) == Join([i \in DOMAIN directives |-> directives[i].bytes], ";")

\* the header value: the hops separated by commas, the last hop last
ForwardedValue(input) ==
    Bytes(Join([i \in DOMAIN input.earlier |-> input.earlier[i].bytes]
               \o <<HopBytes(input.last)>>, ","))

\* header containers, keys and values handed to the injector
Containers ==
    {<<>>,
     <<Header("traceparent", Text("old"))>>,
     <<Header("x-custom", Opaque("ff")), Header("traceparent", Text("first")),
       Header("tracestate", Text("state")), Header("traceparent", Text("second"))>>}

Keys == {"traceparent", "Traceparent", "TraceState", "x-custom", "", "bad key"}

Strings == {AsciiString("00-0af7-b7ad-01"), NonAsciiString("caf0xe9"),
            ControlString("line0x0abreak")}

SetInputs ==
    {[headers |-> h, key |-> k, value |-> v] : h \in Containers, k \in Keys, v \in Strings}

\* the host [::1]:3000: a bracketed IPv6 literal and a port
HOST_IPV6 == <<"[", ":", ":", "1", "]", ":", "3", "0", "0", "0">>

\* received requests: a Forwarded header or none, and the other three headers,
\* each absent, text, or bytes that are no text
RecvForwarded ==
    {None, Some(<<D_HOST_A>>), Some(<<D_PROTO_UPPER>>), Some(<<D_FOR>>),
     Some(<<D_HOST_UPPER, D_PROTO_HTTP>>)}

RecvInputs ==
    {[forwarded |-> f, x_forwarded_host |-> xh, host |-> h, x_forwarded_proto |-> xp] :
        f  \in RecvForwarded,
        xh \in {None, Some(Bytes(<<"x", ".", "t", "e", "s", "t", ":", "8", "0", "8", "0">>)), Some(Bytes(<<"0xff">>))},
        h  \in {None, Some(Bytes(<<"h", ".", "t", "e", "s", "t">>)), Some(Bytes(<<"0xff">>)),
                Some(Bytes(HOST_IPV6))},
        xp \in {None, Some(Bytes(<<"h", "t", "t", "p", "s">>)), Some(Bytes(<<"0xff">>))}}

OptHeader(name, value) == IF value = None THEN <<>> ELSE <<Header(name, value[1])>>

RecvRequest(input) ==
    Request("GET", "HTTP/1.1", Uri(None, None, None, PATH_USERS, None),
            OptHeader("host", input.host)
            \o OptHeader("x-forwarded-proto", input.x_forwarded_proto)
            \o OptHeader("x-forwarded-host", input.x_forwarded_host)
            \o (IF input.forwarded = None THEN <<>>
                ELSE <<Header("forwarded", Bytes(HopBytes(input.forwarded[1])))>>),
            None, None)

\* request paths of gRPC calls
PATH_HEALTH   == <<"/", "h", "e", "a", "l", "t", "h">>
PATH_ROOT     == <<"/">>
PATH_TWO      == <<"/", "/", "a", "/", "b">>
PATH_THREE    == <<"/", "a", "/", "b", "/", "c">>
PATH_TRAILING == <<"/", "a", "/">>

GrpcPaths == {PATH_GREET, PATH_HEALTH, PATH_ROOT, <<>>, PATH_TWO, PATH_THREE, PATH_TRAILING}

GrpcInputs == {[kind |-> k, path |-> p] : k \in {"client", "server"}, p \in GrpcPaths}

GrpcRequest(input) ==
    Request("POST", "HTTP/2.0", Uri(None, None, None, input.path, None), <<>>, None, None)

\* messages whose body size is asked: a Content-Length header (or none) with
\* the number it is to be read as (None: no number), and the body's size hint
ContentLength(value, number) == [value |-> value, number |-> number]

ContentLengths ==
    {ContentLength(None, None),
     ContentLength(Some(Bytes(<<"4", "2">>)), Some(42)),
     ContentLength(Some(Bytes(<<"0">>)), Some(0)),
     ContentLength(Some(Bytes(<<"+", "7">>)), Some(7)),
     ContentLength(Some(Bytes(<<"a", "b", "c">>)), None),
     ContentLength(Some(Bytes(<<"-", "1">>)), None),
     ContentLength(Some(Bytes(<<" ", "4", "2">>)), None),
     ContentLength(Some(Bytes(<<>>)), None),
     ContentLength(Some(Bytes(<<"0xff", "4", "2">>)), None)}

SizeHints == {None, Some(0), Some(7)}

SizeInputs ==
    {[content_length |-> c, size_hint |-> h] : c \in ContentLengths, h \in SizeHints}

SizeRequest(input) ==
    Request("POST", "HTTP/1.1", Uri(None, None, None, PATH_USERS, None),
            OptHeader("content-length", input.content_length.value), None, input.size_hint)

SizeResponse(input) ==
    Response(200, OptHeader("content-length", input.content_length.value), input.size_hint)

\* sent requests: the scheme, the host and the port of the URI, each or none
SentInputs ==
    {[scheme |-> s, host |-> h, port |-> p] :
        s \in {None, Some(S_HTTP), Some(S_HTTPS), Some(<<"f", "t", "p">>)},
        h \in {None, Some(<<"h", ".", "t", "e", "s", "t">>)},
        p \in {None, Some(80), Some(8443)}}

SentRequest(input) ==
    Request("GET", "HTTP/1.1", Uri(input.scheme, input.host, input.port, PATH_USERS, None),
            <<>>, None, None)

ProbeInputs ==
    {Probe("set", i) : i \in SetInputs}
    \cup {Probe("forwarded", i) : i \in ForwardedInputs}
    \cup {Probe("recv", i) : i \in RecvInputs}
    \cup {Probe("grpc", i) : i \in GrpcInputs}
    \cup {Probe("size", i) : i \in SizeInputs}
    \cup {Probe("sent", i) : i \in SentInputs}

\* nothing built yet on the meter
NoWiring == [built |-> 0, records |-> <<>>, layers |-> <<>>, services |-> <<>>,
             futures |-> <<>>, recorded |-> {}]

Init ==
    /\ layer \in Layers
    /\ now = 0
    /\ ready = [inner |-> Idle, output |-> Idle]
    /\ phase = [r \in Reqs |-> "idle"]
    /\ polls = [r \in Reqs |-> 0]
    /\ received = [r \in Reqs |-> None]
    /\ forwarded = [r \in Reqs |-> None]
    /\ state = [r \in Reqs |-> NoState]
    /\ span = [r \in Reqs |-> NoSpan]
    /\ inner = [r \in Reqs |-> Idle]
    /\ output = [r \in Reqs |-> Idle]
    /\ events = [r \in Reqs |-> <<>>]
    /\ called_at = [r \in Reqs |-> 0]
    /\ resolved_at = [r \in Reqs |-> 0]
    /\ active_requests = 0
    /\ probe = NoProbe
    /\ wiring = NoWiring

\* time passes; only the metrics middleware reads the clock
Tick ==
    /\ layer.mw = "metrics"
    /\ now < MaxTime
    /\ now' = now + 1
    /\ UNCHANGED <<wiring, probe, layer, ready, phase, polls, received, forwarded, state, span,
                   inner, output, events, called_at, resolved_at, active_requests>>

\* Service::poll_ready of the middleware
PollReady ==
    \E inner_ready \in ReadyAnswers :
        /\ ready' = [inner |-> inner_ready, output |-> poll_ready(inner_ready)]
        /\ UNCHANGED <<wiring, probe, layer, now, phase, polls, received, forwarded, state, span,
                       inner, output, events, called_at, resolved_at, active_requests>>

\* what Service::call of the middleware under test does with a request
call(id, req) ==
    CASE layer.mw = "metrics" ->
            LET c == metrics_call(layer.kind, req, now)
            IN  [state |-> c.state, span |-> NoSpan, forwarded |-> c.forwarded,
                 events |-> c.events]
      [] layer.mw = "http" ->
            LET c == http_call(id, layer.kind, req)
            IN  [state |-> NoState, span |-> c.span, forwarded |-> c.forwarded,
                 events |-> c.events]
      [] layer.mw = "grpc" ->
            LET c == grpc_call(id, layer.kind, req)
            IN  [state |-> NoState, span |-> c.span, forwarded |-> c.forwarded,
                 events |-> c.events]
      [] layer.mw = "http_client" ->
            LET c == http_client_call(id, req)
            IN  [state |-> NoState, span |-> c.span, forwarded |-> c.forwarded,
                 events |-> c.events]
      [] layer.mw = "otel_trace" ->
            LET c == otel_trace_call(req)
            IN  [state |-> NoState, span |-> c.span, forwarded |-> c.forwarded,
                 events |-> c.events]

\* every poll done on the state of the first request
poll_first_state(id, inner_poll) ==
    LET p == metrics_poll(state[1], inner_poll, now)
    IN  [state |-> p.state, span |-> span[id], output |-> p.output, events |-> p.events]

\* what one poll of the response future does, given the inner future's answer
poll(id, inner_poll) ==
    CASE layer.mw = "metrics" ->
            LET p == metrics_poll(state[id], inner_poll, now)
            IN  [state |-> p.state, span |-> span[id], output |-> p.output,
                 events |-> p.events]
      [] layer.mw = "http" ->
            LET p == http_poll(span[id], layer.kind, inner_poll)
            IN  [state |-> state[id], span |-> p.span, output |-> p.output,
                 events |-> p.events]
      [] layer.mw = "grpc" ->
            LET p == grpc_poll(span[id], inner_poll)
            IN  [state |-> state[id], span |-> p.span, output |-> p.output,
                 events |-> p.events]
      [] layer.mw = "http_client" ->
            LET p == http_client_poll(span[id], inner_poll)
            IN  [state |-> state[id], span |-> p.span, output |-> p.output,
                 events |-> p.events]
      [] layer.mw = "otel_trace" ->
            LET p == otel_trace_poll(span[id], inner_poll)
            IN  [state |-> state[id], span |-> p.span, output |-> p.output,
                 events |-> p.events]

\* what dropping the response future does
drop(id) ==
    IF layer.mw = "metrics"
    THEN [span |-> span[id], events |-> metrics_drop(state[id])]
    ELSE [span |-> trace_drop(span[id]), events |-> <<Event("span.close")>>]

\* a request arrives: Service::call
Call(r) ==
    /\ phase[r] = "idle"
    /\ IF r = 1 THEN TRUE ELSE phase[r - 1] # "idle"
    /\ \E req \in Requests :
        \* the requests of one run are all the same request
        /\ IF r = 1 THEN TRUE ELSE received[r - 1] = Some(req)
        /\ received' = [received EXCEPT ![r] = Some(req)]
        /\ LET c == call(r, req)
           IN  /\ state' = [state EXCEPT ![r] = c.state]
               /\ span' = [span EXCEPT ![r] = c.span]
               /\ forwarded' = [forwarded EXCEPT ![r] = Some(c.forwarded)]
               /\ events' = [events EXCEPT ![r] = @ \o c.events]
               /\ active_requests' = active_requests + CounterDelta(c.events)
    /\ phase' = [phase EXCEPT ![r] = "inflight"]
    /\ called_at' = [called_at EXCEPT ![r] = now]
    /\ UNCHANGED <<wiring, probe, layer, now, ready, polls, inner, output, resolved_at>>

\* the executor polls the response future and the inner future is not ready
PollPending(r) ==
    /\ phase[r] = "inflight"
    /\ polls[r] < MaxPolls
    /\ LET p == poll(r, Pending)
       IN  /\ state' = [state EXCEPT ![r] = p.state]
           /\ span' = [span EXCEPT ![r] = p.span]
           /\ output' = [output EXCEPT ![r] = p.output]
           /\ events' = [events EXCEPT ![r] = @ \o p.events]
           /\ active_requests' = active_requests + CounterDelta(p.events)
    /\ inner' = [inner EXCEPT ![r] = Pending]
    /\ polls' = [polls EXCEPT ![r] = @ + 1]
    /\ UNCHANGED <<wiring, probe, layer, now, ready, phase, received, forwarded, called_at,
                   resolved_at>>

\* the executor polls the response future and the inner future resolves
PollReadyResult(r) ==
    /\ phase[r] = "inflight"
    /\ \E result \in Results(layer.mw) :
        LET p == poll(r, Ready(result))
        IN  /\ state' = [state EXCEPT ![r] = p.state]
            /\ span' = [span EXCEPT ![r] = p.span]
            /\ output' = [output EXCEPT ![r] = p.output]
            /\ events' = [events EXCEPT ![r] = @ \o p.events]
            /\ active_requests' = active_requests + CounterDelta(p.events)
            /\ inner' = [inner EXCEPT ![r] = Ready(result)]
    /\ phase' = [phase EXCEPT ![r] = "resolved"]
    /\ resolved_at' = [resolved_at EXCEPT ![r] = now]
    /\ UNCHANGED <<wiring, probe, layer, now, ready, polls, received, forwarded, called_at>>

\* the response future is dropped: before resolution (cancellation) or after it
Drop(r) ==
    /\ phase[r] \in {"inflight", "resolved"}
    /\ LET d == drop(r)
       IN  /\ span' = [span EXCEPT ![r] = d.span]
           /\ events' = [events EXCEPT ![r] = @ \o d.events]
           /\ active_requests' = active_requests + CounterDelta(d.events)
    /\ phase' = [phase EXCEPT ![r] = IF phase[r] = "inflight" THEN "cancelled" ELSE "done"]
    /\ UNCHANGED <<wiring, probe, layer, now, ready, polls, received, forwarded, state, inner,
                   output, called_at, resolved_at>>

Next ==
    \/ Tick
    \/ PollReady
    \/ \E r \in DOMAIN phase : Call(r)
    \/ \E r \in DOMAIN phase : PollPending(r)
    \/ \E r \in DOMAIN phase : PollReadyResult(r)
    \/ \E r \in DOMAIN phase : Drop(r)

Spec == Init /\ [][Next]_vars

\* the metrics middleware alone under test, on either side
InitMetrics == Init /\ layer.mw = "metrics"

SpecMetrics == InitMetrics /\ [][Next]_vars

\* a trace middleware alone under test; none of them reads the clock
InitTrace == Init /\ layer.mw # "metrics"

NextTrace ==
    \/ PollReady
    \/ \E r \in DOMAIN phase : Call(r)
    \/ \E r \in DOMAIN phase : PollPending(r)
    \/ \E r \in DOMAIN phase : PollReadyResult(r)
    \/ \E r \in DOMAIN phase : Drop(r)

SpecTrace == InitTrace /\ [][NextTrace]_vars

\* several requests in flight at once on one metrics middleware; the clock
\* stands still and the readiness of the inner service is not asked
MaxInflight == 2

InitConcurrent ==
    /\ layer \in {l \in Layers : l.mw = "metrics"}
    /\ now = 0
    /\ ready = [inner |-> Idle, output |-> Idle]
    /\ phase = [r \in 1..MaxInflight |-> "idle"]
    /\ polls = [r \in 1..MaxInflight |-> 0]
    /\ received = [r \in 1..MaxInflight |-> None]
    /\ forwarded = [r \in 1..MaxInflight |-> None]
    /\ state = [r \in 1..MaxInflight |-> NoState]
    /\ span = [r \in 1..MaxInflight |-> NoSpan]
    /\ inner = [r \in 1..MaxInflight |-> Idle]
    /\ output = [r \in 1..MaxInflight |-> Idle]
    /\ events = [r \in 1..MaxInflight |-> <<>>]
    /\ called_at = [r \in 1..MaxInflight |-> 0]
    /\ resolved_at = [r \in 1..MaxInflight |-> 0]
    /\ active_requests = 0
    /\ probe = NoProbe
    /\ wiring = NoWiring

NextConcurrent ==
    \/ \E r \in DOMAIN phase : Call(r)
    \/ \E r \in DOMAIN phase : PollPending(r)
    \/ \E r \in DOMAIN phase : PollReadyResult(r)
    \/ \E r \in DOMAIN phase : Drop(r)

SpecConcurrent == InitConcurrent /\ [][NextConcurrent]_vars

\* ------------------------------------- the pure functions, one application
InitUtil ==
    /\ probe \in ProbeInputs
    /\ wiring = NoWiring
    /\ layer = [mw |-> "grpc", kind |-> "server"]
    /\ now = 0
    /\ ready = [inner |-> Idle, output |-> Idle]
    /\ phase = [r \in Reqs |-> "idle"]
    /\ polls = [r \in Reqs |-> 0]
    /\ received = [r \in Reqs |-> None]
    /\ forwarded = [r \in Reqs |-> None]
    /\ state = [r \in Reqs |-> NoState]
    /\ span = [r \in Reqs |-> NoSpan]
    /\ inner = [r \in Reqs |-> Idle]
    /\ output = [r \in Reqs |-> Idle]
    /\ events = [r \in Reqs |-> <<>>]
    /\ called_at = [r \in Reqs |-> 0]
    /\ resolved_at = [r \in Reqs |-> 0]
    /\ active_requests = 0

\* HeaderInjector::set on a container, then HeaderExtractor::get of the same
\* key and HeaderExtractor::keys on the container
InjectorSet ==
    /\ probe.fn = "set" /\ ~probe.done
    /\ LET headers == HeaderInjector_set(probe.input.headers, probe.input.key,
                                         probe.input.value)
       IN  probe' = [probe EXCEPT !.done = TRUE,
                                  !.output = [headers |-> headers,
                                              get  |-> HeaderExtractor_get(headers,
                                                                           probe.input.key),
                                              keys |-> HeaderExtractor_keys(headers)]]
    /\ UNCHANGED <<wiring, layer, now, ready, phase, polls, received, forwarded, state, span,
                   inner, output, events, called_at, resolved_at, active_requests>>

\* Forwarded::parse_header_value on a header value
ParseForwarded ==
    /\ probe.fn = "forwarded" /\ ~probe.done
    /\ probe' = [probe EXCEPT !.done = TRUE,
                              !.output = parse_header_value(ForwardedValue(probe.input))]
    /\ UNCHANGED <<wiring, layer, now, ready, phase, polls, received, forwarded, state, span,
                   inner, output, events, called_at, resolved_at, active_requests>>

\* HttpRequestAttributes::from_recv_request on a received request
FromRecvRequest ==
    /\ probe.fn = "recv" /\ ~probe.done
    /\ probe' = [probe EXCEPT !.done = TRUE,
                              !.output = from_recv_request(RecvRequest(probe.input))]
    /\ UNCHANGED <<wiring, layer, now, ready, phase, polls, received, forwarded, state, span,
                   inner, output, events, called_at, resolved_at, active_requests>>

\* HttpRequestAttributes::from_sent_request on a request to send
FromSentRequest ==
    /\ probe.fn = "sent" /\ ~probe.done
    /\ probe' = [probe EXCEPT !.done = TRUE,
                              !.output = from_sent_request(SentRequest(probe.input))]
    /\ UNCHANGED <<wiring, layer, now, ready, phase, polls, received, forwarded, state, span,
                   inner, output, events, called_at, resolved_at, active_requests>>

\* trace::Grpc make_request_span on a request with the given path
GrpcMakeRequestSpan ==
    /\ probe.fn = "grpc" /\ ~probe.done
    /\ probe' = [probe EXCEPT !.done = TRUE,
                              !.output = grpc_make_request_span(
                                             1, probe.input.kind,
                                             GrpcRequest(probe.input)).span]
    /\ UNCHANGED <<wiring, layer, now, ready, phase, polls, received, forwarded, state, span,
                   inner, output, events, called_at, resolved_at, active_requests>>

\* util::http_request_size and util::http_response_size on a message
BodySize ==
    /\ probe.fn = "size" /\ ~probe.done
    /\ probe' = [probe EXCEPT !.done = TRUE,
                              !.output = [request  |-> http_request_size(
                                                           SizeRequest(probe.input)),
                                          response |-> http_response_size(
                                                           SizeResponse(probe.input))]]
    /\ UNCHANGED <<wiring, layer, now, ready, phase, polls, received, forwarded, state, span,
                   inner, output, events, called_at, resolved_at, active_requests>>

NextUtil ==
    \/ InjectorSet
    \/ ParseForwarded
    \/ FromRecvRequest
    \/ FromSentRequest
    \/ GrpcMakeRequestSpan
    \/ BodySize

SpecUtil == InitUtil /\ [][NextUtil]_vars

\* ------------------- metrics: layers, services and futures on one meter
MaxLayers   == 2      \* HttpLayer values, constructed or cloned
MaxServices == 2      \* Http services, made by layer() or cloned
MaxFutures  == 2      \* response futures returned by call

\* MetricsRecord::server and MetricsRecord::client: four instruments are built
\* on the meter, which has built `built` instruments so far
MetricsRecord(side, built) ==
    [side |-> side,
     request_duration   |-> built + 1,
     active_requests    |-> built + 2,
     request_body_size  |-> built + 3,
     response_body_size |-> built + 4]

\* Arc::clone: one more handle to the same value
Arc_clone(arc) == arc

\* a service that holds the first record built on the meter, whatever its layer
HttpLayer_layer_first_record(self, id) == [record |-> 1, layer |-> id, cloned |-> FALSE]

\* HttpLayer::layer: the service shares the record of the layer
HttpLayer_layer(self, id) ==
    [record |-> Arc_clone(self.record), layer |-> id, cloned |-> FALSE]

\* #[derive(Clone)] of HttpLayer and of Http
HttpLayer_clone(self) == [self EXCEPT !.record = Arc_clone(@)]
Http_clone(self)      == [self EXCEPT !.record = Arc_clone(@), !.cloned = TRUE]

\* the instrument of a record that an operation of call or poll records into
instrument_of(rec, op) ==
    CASE op = "request_duration.record"   -> rec.request_duration
      [] op = "active_requests.add"       -> rec.active_requests
      [] op = "request_body_size.record"  -> rec.request_body_size
      [] op = "response_body_size.record" -> rec.response_body_size
      [] OTHER                            -> 0

\* the measurements among the events of a handler, each with its instrument
recordings(rec, future, evs) ==
    {[instrument |-> instrument_of(rec, evs[i].op), future |-> future, op |-> evs[i].op] :
        i \in {j \in DOMAIN evs : instrument_of(rec, evs[j].op) # 0}}

\* the request and the answer used to exercise the services
WiringRequest == CHOOSE req \in Requests : req.method = "PROPFIND"
WiringResult  == Ok(Response(200, <<>>, Some(7)))

InitWiring ==
    /\ wiring = NoWiring
    /\ probe = NoProbe
    /\ layer = [mw |-> "metrics", kind |-> "server"]
    /\ now = 0
    /\ ready = [inner |-> Idle, output |-> Idle]
    /\ phase = [r \in Reqs |-> "idle"]
    /\ polls = [r \in Reqs |-> 0]
    /\ received = [r \in Reqs |-> None]
    /\ forwarded = [r \in Reqs |-> None]
    /\ state = [r \in Reqs |-> NoState]
    /\ span = [r \in Reqs |-> NoSpan]
    /\ inner = [r \in Reqs |-> Idle]
    /\ output = [r \in Reqs |-> Idle]
    /\ events = [r \in Reqs |-> <<>>]
    /\ called_at = [r \in Reqs |-> 0]
    /\ resolved_at = [r \in Reqs |-> 0]
    /\ active_requests = 0

\* HttpLayer::server / HttpLayer::client: the record is built and put in an Arc
HttpLayerNew ==
    /\ Len(wiring.layers) < MaxLayers
    /\ \E side \in {"server", "client"} :
        wiring' = [wiring EXCEPT
                     !.built   = @ + 4,
                     !.records = Append(@, MetricsRecord(side, wiring.built)),
                     !.layers  = Append(@, [record |-> Len(wiring.records) + 1,
                                            root   |-> Len(wiring.layers) + 1])]
    /\ UNCHANGED <<probe, layer, now, ready, phase, polls, received, forwarded, state, span,
                   inner, output, events, called_at, resolved_at, active_requests>>

\* HttpLayer::clone
HttpLayerClone ==
    /\ Len(wiring.layers) < MaxLayers
    /\ \E l \in DOMAIN wiring.layers :
        wiring' = [wiring EXCEPT !.layers = Append(@, HttpLayer_clone(wiring.layers[l]))]
    /\ UNCHANGED <<probe, layer, now, ready, phase, polls, received, forwarded, state, span,
                   inner, output, events, called_at, resolved_at, active_requests>>

\* Layer::layer: a service is wrapped
HttpLayerLayer ==
    /\ Len(wiring.services) < MaxServices
    /\ \E l \in DOMAIN wiring.layers :
        wiring' = [wiring EXCEPT
                     !.services = Append(@, HttpLayer_layer(wiring.layers[l], l))]
    /\ UNCHANGED <<probe, layer, now, ready, phase, polls, received, forwarded, state, span,
                   inner, output, events, called_at, resolved_at, active_requests>>

\* Http::clone
HttpClone ==
    /\ Len(wiring.services) < MaxServices
    /\ \E s \in DOMAIN wiring.services :
        wiring' = [wiring EXCEPT !.services = Append(@, Http_clone(wiring.services[s]))]
    /\ UNCHANGED <<probe, layer, now, ready, phase, polls, received, forwarded, state, span,
                   inner, output, events, called_at, resolved_at, active_requests>>

\* Http::call on one of the services
HttpCall ==
    /\ Len(wiring.futures) < MaxFutures
    /\ \E s \in DOMAIN wiring.services :
        LET arc    == Arc_clone(wiring.services[s].record)
            c      == metrics_call(wiring.records[arc].side, WiringRequest, 0)
            f      == Len(wiring.futures) + 1
        IN  wiring' = [wiring EXCEPT
                         !.futures  = Append(@, [record |-> arc, service |-> s,
                                                 state |-> c.state, resolved |-> FALSE]),
                         !.recorded = @ \cup recordings(wiring.records[arc], f, c.events)]
    /\ UNCHANGED <<probe, layer, now, ready, phase, polls, received, forwarded, state, span,
                   inner, output, events, called_at, resolved_at, active_requests>>

\* ResponseFuture::poll of one of the futures, the inner future being ready
ResponseFuturePoll ==
    /\ \E f \in DOMAIN wiring.futures :
        /\ ~wiring.futures[f].resolved
        /\ LET arc    == wiring.futures[f].record
               p      == metrics_poll(wiring.futures[f].state, Ready(WiringResult), 0)
           IN  wiring' = [wiring EXCEPT
                            !.futures[f].state    = p.state,
                            !.futures[f].resolved = TRUE,
                            !.recorded = @ \cup recordings(wiring.records[arc], f, p.events)]
    /\ UNCHANGED <<probe, layer, now, ready, phase, polls, received, forwarded, state, span,
                   inner, output, events, called_at, resolved_at, active_requests>>

NextWiring ==
    \/ HttpLayerNew
    \/ HttpLayerClone
    \/ HttpLayerLayer
    \/ HttpClone
    \/ HttpCall
    \/ ResponseFuturePoll

SpecWiring == InitWiring /\ [][NextWiring]_vars

\* ----------------------------------------------------------- observations
TraceMws == {"http", "grpc", "http_client"}

Called(r)   == phase[r] # "idle"
Resolved(r) == phase[r] \in {"resolved", "done"}
Ended(r)    == phase[r] \in {"cancelled", "done"}

RECURSIVE CountOp(_, _, _)
\* how many events of the log are the operation op with the value v
CountOp(evs, op, v) ==
    IF evs = <<>> THEN 0
    ELSE (IF Head(evs).op = op /\ Head(evs).value = v THEN 1 ELSE 0)
         + CountOp(Tail(evs), op, v)

RECURSIVE OpsOf(_, _)
\* the events of the log whose operation is in ops
OpsOf(evs, ops) ==
    IF evs = <<>> THEN <<>>
    ELSE (IF Head(evs).op \in ops THEN <<Head(evs)>> ELSE <<>>) \o OpsOf(Tail(evs), ops)

\* the position of the first event with operation op (0 if there is none)
FirstOp(evs, op) ==
    IF \E i \in DOMAIN evs : evs[i].op = op
    THEN CHOOSE i \in DOMAIN evs : evs[i].op = op /\ \A j \in 1..(i - 1) : evs[j].op # op
    ELSE 0

\* the value of a span field, Empty when the span does not declare it
Field(sp, f) == IF f \in DOMAIN sp.fields THEN sp.fields[f] ELSE Empty

\* ----------------------------------------------------------------- claims
\* C1: metrics middleware: on every path of a request (resolution with success
\* or error, or drop of the response future before resolution) the
\* active-request counter receives exactly one +1 and exactly one -1.
C1_ActiveRequestsNetZero ==
    layer.mw = "metrics" =>
        \A r \in DOMAIN phase :
            /\ Called(r) => CountOp(events[r], "active_requests.add", 1) = 1
            /\ (Resolved(r) \/ Ended(r)) =>
                   CountOp(events[r], "active_requests.add", -1) = 1

\* C2: metrics middleware: a request whose inner completion resolved has exactly
\* one value in the duration histogram, however many polls returned Pending, and
\* the value is the time from the instant captured at call time, before the
\* call was forwarded, to the resolution.
C2_OneDurationFromCallStart ==
    layer.mw = "metrics" =>
        \A r \in DOMAIN phase :
            Resolved(r) =>
                /\ Len(OpsOf(events[r], {"request_duration.record"})) = 1
                /\ OpsOf(events[r], {"request_duration.record"})[1].value
                       = resolved_at[r] - called_at[r]
                /\ state[r].start = called_at[r]
                /\ FirstOp(events[r], "ResponseMetricState::new") >= 1
                /\ FirstOp(events[r], "ResponseMetricState::new")
                       < FirstOp(events[r], "inner.call")

C2_Witness ==
    /\ layer.mw = "metrics"
    /\ \E r \in DOMAIN phase :
        /\ Resolved(r) /\ polls[r] >= 1
        /\ called_at[r] >= 1 /\ resolved_at[r] >= called_at[r]
        /\ ~inner[r].value.ok

\* C3: trace middlewares: for a request whose inner completion resolved exactly
\* one finalize step ran, once, and it is record_response iff the inner result
\* is a success and record_error iff it is an error.
C3_OneFinalizeStep ==
    layer.mw \in TraceMws =>
        \A r \in DOMAIN phase :
            Resolved(r) =>
                LET fin == OpsOf(events[r], {"record_response", "record_error"})
                IN  /\ Len(fin) = 1
                    /\ (fin[1].op = "record_response") <=> inner[r].value.ok
                    /\ (fin[1].op = "record_error") <=> ~inner[r].value.ok
                    /\ (Field(span[r], "error.message") # Empty) <=> ~inner[r].value.ok

C3_Witness ==
    /\ layer.mw = "http"
    /\ \E r \in DOMAIN phase :
        /\ Resolved(r) /\ polls[r] = MaxPolls
        /\ inner[r].value.ok /\ inner[r].value.response.status = 500

\* C4: metrics and trace middlewares are observational: each poll of the
\* response future returns exactly what the inner future answered, Pending for
\* Pending and the same success or the same error when it resolves.
C4_Observational ==
    \A r \in DOMAIN phase : output[r] = inner[r]

C4_Witness ==
    /\ layer.mw = "metrics"
    /\ \E r \in DOMAIN phase :
        /\ Resolved(r) /\ polls[r] >= 1
        /\ output[r] = Ready(Err(2))

\* C5: poll_ready returns what the inner service's poll_ready returned and does
\* nothing else: no span, no counter change, no histogram value.
C5_PollReadyPassThrough ==
    [][ready' # ready =>
          /\ ready'.output = ready'.inner
          /\ UNCHANGED <<phase, polls, received, forwarded, state, span, inner, output,
                         events, active_requests>>]_vars

C5_Witness ==
    /\ ready.inner = Ready(Err(1)) /\ ready.output = Ready(Err(1))
    /\ \E r \in DOMAIN phase : phase[r] = "inflight"

\* C6: server-kind trace::Http: after resolution otel.status_code is ERROR iff
\* the inner result is an error or a response with a 5xx status; a response
\* with a status below 500 leaves otel.status_code and error.message unset and
\* has its status recorded in http.response.status_code.
C6_ServerSpanStatus ==
    (layer.mw = "http" /\ layer.kind = "server") =>
        \A r \in DOMAIN phase :
            Resolved(r) =>
                LET res == inner[r].value
                IN  /\ (Field(span[r], "otel.status_code") = Str("ERROR"))
                           <=> (~res.ok \/ (res.response.status >= 500
                                             /\ res.response.status <= 599))
                    /\ (res.ok /\ res.response.status < 500) =>
                           /\ Field(span[r], "otel.status_code") = Empty
                           /\ Field(span[r], "error.message") = Empty
                           /\ Field(span[r], "http.response.status_code")
                                  = I64(res.response.status)

C6_Witness ==
    /\ layer.mw = "http" /\ layer.kind = "server"
    /\ \E r \in DOMAIN phase :
        /\ Resolved(r) /\ inner[r].value.ok
        /\ inner[r].value.response.status = 404
        /\ forwarded[r][1].method = "GET"

\* C7: client-kind HTTP spans (trace::Http built as client, trace::HttpClient):
\* on a successful completion otel.status_code is ERROR when the status is 4xx
\* and when it is 5xx, and unset for every other status.
C7_ClientSpanStatus ==
    (layer.mw \in {"http", "http_client"} /\ layer.kind = "client") =>
        \A r \in DOMAIN phase :
            (Resolved(r) /\ inner[r].value.ok) =>
                LET status == inner[r].value.response.status
                IN  IF status >= 400 /\ status <= 599
                    THEN Field(span[r], "otel.status_code") = Str("ERROR")
                    ELSE Field(span[r], "otel.status_code") = Empty

\* C8: trace middlewares: when the inner completion resolves with an error the
\* span has otel.status_code = ERROR and error.message = the error's text, no
\* response attribute (status code, response header) is on the span, and the
\* same error is returned to the caller.
C8_ErrorFinalization ==
    layer.mw \in TraceMws =>
        \A r \in DOMAIN phase :
            (Resolved(r) /\ ~inner[r].value.ok) =>
                /\ Field(span[r], "otel.status_code") = Str("ERROR")
                /\ Field(span[r], "error.message") = Str(to_string(inner[r].value.err))
                /\ Field(span[r], "http.response.status_code") = Empty
                /\ Field(span[r], "rpc.grpc.status_code") = Empty
                /\ \A i \in DOMAIN span[r].attrs :
                       span[r].attrs[i][1][1] \notin
                           {"http.response.header.", "rpc.grpc.response.metadata."}
                /\ output[r] = Ready(Err(inner[r].value.err))

C8_Witness ==
    /\ layer.mw = "grpc"
    /\ \E r \in DOMAIN phase :
        /\ Resolved(r) /\ polls[r] >= 1
        /\ inner[r].value = Err(2)
        /\ Len(span[r].attrs) >= 1

\* C9: trace middlewares: when the response future is dropped before the inner
\* completion resolves, the span is closed and carries none of the
\* finalization attributes.
C9_CancelledSpan ==
    layer.mw \in TraceMws =>
        \A r \in DOMAIN phase :
            phase[r] = "cancelled" =>
                /\ span[r].closed = 1
                /\ Field(span[r], "http.response.status_code") = Empty
                /\ Field(span[r], "rpc.grpc.status_code") = Empty
                /\ Field(span[r], "otel.status_code") = Empty
                /\ Field(span[r], "error.message") = Empty

C9_Witness ==
    /\ layer.mw = "grpc"
    /\ \E r \in DOMAIN phase :
        /\ phase[r] = "cancelled" /\ polls[r] >= 1
        /\ span[r].opened = 1

\* C10: trace middlewares: each call creates exactly one span; on every path
\* (success, error, drop before resolution) the span is closed exactly once
\* and not reopened, and nothing is recorded on it after it is closed.
C10_SpanLifecycle ==
    layer.mw \in TraceMws =>
        \A r \in DOMAIN phase :
            /\ span[r].opened = (IF Called(r) THEN 1 ELSE 0)
            /\ span[r].closed = (IF Ended(r) THEN 1 ELSE 0)
            /\ ~span[r].late
            /\ Len(OpsOf(events[r], {"make_request_span"})) = span[r].opened
            /\ Len(OpsOf(events[r], {"span.close"})) = span[r].closed

C10_Witness ==
    /\ layer.mw = "http_client"
    /\ \E r \in DOMAIN phase :
        /\ phase[r] = "done" /\ polls[r] >= 1
        /\ span[r].closed = 1
        /\ Field(span[r], "http.response.status_code") # Empty

\* C11: client-kind trace middleware: per outbound request the context is
\* injected exactly once, after the span is created and before the call is
\* forwarded, and the request the inner service receives carries the header
\* written from the context of that span.
C11_ClientInjection ==
    (layer.mw \in TraceMws /\ layer.kind = "client") =>
        \A r \in DOMAIN phase :
            Called(r) =>
                /\ CountOp(events[r], "inject_context", 0) = 1
                /\ CountOp(events[r], "span!", 0) = 1
                /\ FirstOp(events[r], "span!") < FirstOp(events[r], "inject_context")
                /\ FirstOp(events[r], "inject_context") < FirstOp(events[r], "inner.call")
                /\ HeaderExtractor_get(forwarded[r][1].headers, "traceparent")
                       = Some(span_context(r))
                /\ \A i, j \in DOMAIN forwarded[r][1].headers :
                       (/\ forwarded[r][1].headers[i].name = "traceparent"
                        /\ forwarded[r][1].headers[j].name = "traceparent") => i = j

\* a client call whose request came in with a traceparent header of its own
C11_Witness ==
    /\ layer.mw \in TraceMws /\ layer.kind = "client"
    /\ \E r \in DOMAIN phase :
        /\ Called(r)
        /\ HeaderExtractor_get(received[r][1].headers, "traceparent") # None
        /\ HeaderExtractor_get(received[r][1].headers, "traceparent")
               # Some(span_context(r))
        /\ HeaderExtractor_get(forwarded[r][1].headers, "traceparent")
               = Some(span_context(r))

\* C12 as stated: server-kind trace middleware: per inbound request the
\* context is extracted exactly once, before the span is created, and set as
\* the parent of the span before the call is forwarded.
C12_ExtractBeforeSpan ==
    (layer.mw \in TraceMws /\ layer.kind = "server") =>
        \A r \in DOMAIN phase :
            Called(r) =>
                /\ CountOp(events[r], "extract", 0) = 1
                /\ FirstOp(events[r], "extract") < FirstOp(events[r], "span!")
                /\ FirstOp(events[r], "set_parent") < FirstOp(events[r], "inner.call")
                /\ span[r].parent = extract(received[r][1].headers)

\* C12 amended: server-kind trace middleware: per inbound request the span is
\* created first, then the context is extracted exactly once and set as the
\* parent of the span, all before the call is forwarded.
C12_ExtractAfterSpan ==
    (layer.mw \in TraceMws /\ layer.kind = "server") =>
        \A r \in DOMAIN phase :
            Called(r) =>
                /\ CountOp(events[r], "extract", 0) = 1
                /\ CountOp(events[r], "set_parent", 0) = 1
                /\ CountOp(events[r], "inject_context", 0) = 0
                /\ FirstOp(events[r], "span!") < FirstOp(events[r], "extract")
                /\ FirstOp(events[r], "extract") < FirstOp(events[r], "set_parent")
                /\ FirstOp(events[r], "set_parent") < FirstOp(events[r], "inner.call")
                /\ span[r].parent = extract(received[r][1].headers)
                /\ forwarded[r] = received[r]

\* a server call whose request carries a context: the span has it as parent
C12_Witness ==
    /\ layer.mw \in TraceMws /\ layer.kind = "server"
    /\ \E r \in DOMAIN phase :
        /\ Called(r)
        /\ extract(received[r][1].headers) # None
        /\ span[r].parent = extract(received[r][1].headers)

\* ------------------------------------------ observations of one application
Applied(fn) == probe.fn = fn /\ probe.done

\* the headers of the container stored under the name, in order
Stored(headers, name) == SelectSeq(headers, LAMBDA h : h.name = name)

\* the keys that are no header names
InvalidKeys == {"", "bad key"}

RECURSIVE ExpectedForwarded(_, _)
\* what the directives of one hop are to give, read from what each is to do
ExpectedForwarded(directives, found) ==
    IF directives = <<>> THEN found
    ELSE LET d == Head(directives)
         IN  ExpectedForwarded(Tail(directives),
                 Forwarded(IF d.host # None THEN d.host[1] ELSE found.host,
                           IF d.proto # None THEN d.proto[1] ELSE found.proto))

\* C13: HeaderInjector::set leaves the container unchanged when the key is
\* not a valid header name or the value is not a valid header value; when
\* both are valid the container afterwards holds exactly that one value under
\* the (lower-case) key and every other key keeps the values it had.
C13_InjectorSet ==
    Applied("set") =>
        LET headers == probe.input.headers
            after   == probe.output.headers
            name    == HeaderName_from_str(probe.input.key)
        IN  IF probe.input.key \in InvalidKeys \/ probe.input.value.bytes = "control"
            THEN after = headers
            ELSE /\ name # None
                 /\ Len(Stored(after, name[1])) = 1
                 /\ Stored(after, name[1])[1].value.s = probe.input.value.s
                 /\ \A n \in (HeaderExtractor_keys(headers) \cup HeaderExtractor_keys(after))
                                \ {name[1]} :
                        Stored(after, n) = Stored(headers, n)

\* a valid key and value set on a container that held two values of the key
C13_Witness ==
    /\ Applied("set")
    /\ Len(Stored(probe.input.headers, "traceparent")) = 2
    /\ probe.input.key = "Traceparent"
    /\ Stored(probe.output.headers, "traceparent")
           = <<Header("traceparent", Text(probe.input.value.s))>>
    /\ Len(probe.output.headers) = 3

\* C14 as stated: for every header-safe key k and text value v, after
\* HeaderInjector::set(k, v) HeaderExtractor::get(k) returns v and
\* HeaderExtractor::keys() contains the lower-case form of k.
C14_RoundTrip ==
    (Applied("set") /\ probe.input.key \notin InvalidKeys) =>
        /\ probe.output.get = Some(probe.input.value.s)
        /\ HeaderName_from_str(probe.input.key)[1] \in probe.output.keys

\* C14 amended: for every header-safe key k and every value v made of visible
\* ASCII characters only, after HeaderInjector::set(k, v)
\* HeaderExtractor::get(k) returns v and HeaderExtractor::keys() contains the
\* lower-case form of k.
C14_RoundTripAscii ==
    (/\ Applied("set")
     /\ probe.input.key \notin InvalidKeys
     /\ probe.input.value.bytes = "ascii") =>
        /\ probe.output.get = Some(probe.input.value.s)
        /\ HeaderName_from_str(probe.input.key)[1] \in probe.output.keys
        /\ probe.input.key = "Traceparent" => "traceparent" \in probe.output.keys

\* a key in mixed case set over an older value, and read back
C14_Witness ==
    /\ Applied("set")
    /\ probe.input.key = "Traceparent"
    /\ probe.input.value.bytes = "ascii"
    /\ HeaderExtractor_get(probe.input.headers, "traceparent") = Some("old")
    /\ probe.output.get = Some(probe.input.value.s)

\* C15: http_method gives each of the nine recognised verbs as its own token
\* and every other method as _OTHER; every http.request.method attribute the
\* middlewares emit is one of these ten values.
C15_MethodTokens ==
    LET verbs  == {"GET", "POST", "PUT", "DELETE", "HEAD", "OPTIONS", "CONNECT",
                   "PATCH", "TRACE"}
        tokens == {Str(m) : m \in verbs \cup {"_OTHER"}}
    IN  /\ \A m \in verbs \cup {"PROPFIND", "get", "BREW"} :
               http_method(m) = IF m \in verbs THEN m ELSE "_OTHER"
        /\ \A r \in DOMAIN phase :
               Called(r) =>
                   /\ layer.mw \in {"http", "http_client"} =>
                          Field(span[r], "http.request.method") \in tokens
                   /\ layer.mw = "metrics" =>
                          \A i \in DOMAIN state[r].attributes :
                              state[r].attributes[i][1] = "http.request.method" =>
                                  state[r].attributes[i][2] \in tokens

\* C16: Forwarded parsing: host and proto come only from the directives of
\* the last hop: the result is the one of the last hop taken alone, and it is
\* absent when the last hop has no such directive, whatever the earlier hops.
C16_LastHopOnly ==
    Applied("forwarded") =>
        /\ probe.output = parse_header_value(Bytes(HopBytes(probe.input.last)))
        /\ (\A i \in DOMAIN probe.input.last : probe.input.last[i].host = None)
               => probe.output.host = None
        /\ (\A i \in DOMAIN probe.input.last : probe.input.last[i].proto = None)
               => probe.output.proto = None

\* an earlier hop names a host, the last hop names neither host nor proto
C16_Witness ==
    /\ Applied("forwarded")
    /\ probe.input.earlier = <<D_HOST_A>>
    /\ probe.input.last = <<D_FOR>>
    /\ probe.output = Forwarded(None, None)

VALUE_FOR_PROTO_BY ==
    <<"f", "o", "r", "=", "1", "9", "2", ".", "0", ".", "2", ".", "6", "0", ";", "p", "r", "o", "t", "o", "=", "h", "t", "t", "p", ";", "b", "y", "=", "2", "0", "3", ".", "0", ".", "1", "1", "3", ".", "4", "3">>
VALUE_PROTO_BY ==
    <<"P", "r", "o", "t", "o", "=", "h", "t", "t", "p", "s", ";", "b", "y", "=", "2", "0", "3", ".", "0", ".", "1", "1", "3", ".", "4", "3">>
VALUE_UPPER_PROTO_BY ==
    <<"P", "r", "o", "t", "o", "=", "H", "T", "T", "P", "S", ";", "b", "y", "=", "2", "0", "3", ".", "0", ".", "1", "1", "3", ".", "4", "3">>

\* C17: Forwarded parsing takes host= and proto= whatever the case of their
\* letters and takes nothing else: every directive of the last hop does what
\* it is to do (for=, by=, a directive shorter than the prefix: nothing), and
\* the two example values give proto http, and proto https, with no host.
C17_DirectiveNames ==
    Applied("forwarded") =>
        /\ probe.output = ExpectedForwarded(probe.input.last, Forwarded(None, None))
        /\ probe.input = EXAMPLE_FOR_PROTO_BY =>
               /\ ForwardedValue(probe.input).s = VALUE_FOR_PROTO_BY
               /\ probe.output = Forwarded(None, Some(S_HTTP))
        /\ probe.input = EXAMPLE_PROTO_BY =>
               /\ ForwardedValue(probe.input).s = VALUE_PROTO_BY
               /\ probe.output = Forwarded(None, Some(S_HTTPS))

\* Proto=https;by=203.0.113.43 parsed
C17_Witness ==
    /\ Applied("forwarded")
    /\ ForwardedValue(probe.input).s = VALUE_PROTO_BY
    /\ probe.output = Forwarded(None, Some(S_HTTPS))

\* C18: Forwarded parsing of Proto=HTTPS;by=203.0.113.43 gives the scheme
\* https, in lower case, and no host.
C18_UpperCaseProto ==
    (Applied("forwarded") /\ ForwardedValue(probe.input).s = VALUE_UPPER_PROTO_BY) =>
        probe.output = Forwarded(None, Some(S_HTTPS))

\* C19: from_recv_request: the host is the one of the Forwarded header's last
\* hop if it gives one, else X-Forwarded-Host, else Host; the scheme is the
\* one of the Forwarded header's last hop if it gives one, else
\* X-Forwarded-Proto, else absent.
C19_Precedence ==
    Applied("recv") =>
        LET text(v) == IF v = None THEN None
                       ELSE IF v[1].text THEN Some(v[1].s) ELSE None
            first(a, b) == IF a # None THEN a ELSE b
            fwd    == IF probe.input.forwarded = None THEN Forwarded(None, None)
                      ELSE ExpectedForwarded(probe.input.forwarded[1],
                                             Forwarded(None, None))
            host   == first(fwd.host, first(text(probe.input.x_forwarded_host),
                                            text(probe.input.host)))
            scheme == first(fwd.proto, text(probe.input.x_forwarded_proto))
        IN  /\ probe.output.url_scheme = scheme
            /\ probe.output.server_address =
                   IF host = None THEN None
                   ELSE IF position(host[1], ":") = 0 THEN host
                   ELSE Some(SubSeq(host[1], 1, position(host[1], ":") - 1))

\* Forwarded gives no host, X-Forwarded-Host and Host are both there
C19_Witness ==
    /\ Applied("recv")
    /\ probe.input.forwarded = Some(<<D_FOR>>)
    /\ probe.input.x_forwarded_host = Some(Bytes(<<"x", ".", "t", "e", "s", "t", ":", "8", "0", "8", "0">>))
    /\ probe.input.host = Some(Bytes(<<"h", ".", "t", "e", "s", "t">>))
    /\ probe.output.server_address = Some(<<"x", ".", "t", "e", "s", "t">>)
    /\ probe.output.server_port = Some(8080)
    /\ probe.output.url_scheme = probe.input.x_forwarded_proto

\* C20 as stated: gRPC span naming: the path without its leading slash is
\* split on the first slash that remains into rpc.service and rpc.method;
\* with no slash left both stay unset.
C20_OneLeadingSlash ==
    Applied("grpc") =>
        LET path == probe.input.path
            name == IF path # <<>> /\ Head(path) = "/" THEN Tail(path) ELSE path
            at   == position(name, "/")
        IN  IF at = 0
            THEN /\ Field(probe.output, "rpc.service") = Empty
                 /\ Field(probe.output, "rpc.method") = Empty
            ELSE /\ Field(probe.output, "rpc.service") = Str(SubSeq(name, 1, at - 1))
                 /\ Field(probe.output, "rpc.method")
                        = Str(SubSeq(name, at + 1, Len(name)))

\* C20 amended: gRPC span naming: the path without all its leading slashes is
\* the span name; it is split on its first slash into rpc.service (before,
\* holding no slash) and rpc.method (after); with no slash in the name both
\* stay unset; /greet.Greeter/SayHello gives greet.Greeter and SayHello.
C20_AllLeadingSlashes ==
    Applied("grpc") =>
        LET path    == probe.input.path
            name    == Field(probe.output, "otel.name").str
            service == Field(probe.output, "rpc.service")
            method  == Field(probe.output, "rpc.method")
        IN  /\ \E k \in 0..Len(path) : path = [i \in 1..k |-> "/"] \o name
            /\ name = <<>> \/ Head(name) # "/"
            /\ IF position(name, "/") = 0
               THEN service = Empty /\ method = Empty
               ELSE /\ service # Empty /\ method # Empty
                    /\ service.str \o <<"/">> \o method.str = name
                    /\ position(service.str, "/") = 0
            /\ path = PATH_GREET =>
                   /\ service = Str(<<"g", "r", "e", "e", "t", ".", "G", "r", "e", "e", "t", "e", "r">>)
                   /\ method = Str(<<"S", "a", "y", "H", "e", "l", "l", "o">>)

\* the span of a server call to /greet.Greeter/SayHello
C20_Witness ==
    /\ Applied("grpc")
    /\ probe.input = [kind |-> "server", path |-> PATH_GREET]
    /\ Field(probe.output, "rpc.service") =
           Str(<<"g", "r", "e", "e", "t", ".", "G", "r", "e", "e", "t", "e", "r">>)
    /\ Field(probe.output, "rpc.method") = Str(<<"S", "a", "y", "H", "e", "l", "l", "o">>)

\* C21: http_request_size and http_response_size give the Content-Length
\* value when the header is there and is an unsigned integer; else the exact
\* size hint of the body when it has one; else nothing; both functions give
\* the same for the same headers and body.
C21_BodySize ==
    Applied("size") =>
        LET number   == probe.input.content_length.number
            expected == IF number # None THEN number ELSE probe.input.size_hint
        IN  /\ probe.output.request = expected
            /\ probe.output.response = expected

\* a Content-Length that is no number, on a body with an exact size hint
C21_Witness ==
    /\ Applied("size")
    /\ probe.input.content_length.value # None
    /\ probe.input.content_length.number = None
    /\ probe.input.size_hint = Some(7)
    /\ probe.output = [request |-> Some(7), response |-> Some(7)]

\* C22: the four instruments of a layer are built once, when the layer is
\* constructed: cloning a layer, wrapping a service, cloning a service and
\* handling a request build none; every service made by a layer (or by a clone
\* of it) and every request of such a service record into the instruments of
\* that layer.
C22_InstrumentSet ==
    LET constructed == {l \in DOMAIN wiring.layers : wiring.layers[l].root = l}
        record_of(l) == wiring.records[wiring.layers[wiring.layers[l].root].record]
        instruments(rec) == {rec.request_duration, rec.active_requests,
                             rec.request_body_size, rec.response_body_size}
    IN  /\ wiring.built = 4 * Cardinality(constructed)
        /\ Len(wiring.records) = Cardinality(constructed)
        /\ \A l, k \in constructed :
               l # k => instruments(record_of(l)) \cap instruments(record_of(k)) = {}
        /\ \A l \in DOMAIN wiring.layers :
               wiring.records[wiring.layers[l].record] = record_of(l)
        /\ \A s \in DOMAIN wiring.services :
               wiring.records[wiring.services[s].record] = record_of(wiring.services[s].layer)
        /\ \A f \in DOMAIN wiring.futures :
               wiring.futures[f].record = wiring.services[wiring.futures[f].service].record
        /\ \A e \in wiring.recorded :
               e.instrument = instrument_of(
                   record_of(wiring.services[wiring.futures[e.future].service].layer), e.op)

\* two layers on the meter; a service of the second one and a clone of that
\* service have each handled a request
C22_Witness ==
    /\ Len(wiring.records) = 2
    /\ wiring.built = 8
    /\ Len(wiring.services) = 2
    /\ \A s \in DOMAIN wiring.services : wiring.services[s].record = 2
    /\ Len(wiring.futures) = 2
    /\ wiring.futures[1].service # wiring.futures[2].service
    /\ \A f \in DOMAIN wiring.futures : wiring.futures[f].resolved
    /\ \E e \in wiring.recorded : e.future = 2 /\ e.op = "response_body_size.record"

\* s is the beginning of t
IsPrefix(s, t) == Len(s) <= Len(t) /\ SubSeq(t, 1, Len(s)) = s

\* the keys of an attribute list
KeysOf(attrs) == {attrs[i][1] : i \in DOMAIN attrs}

PrefixKeys  == {"http.request.method", "server.address", "server.port", "url.scheme"}
OutcomeKeys == {"http.response.status_code", "error.type"}
HistogramOps ==
    {"request_duration.record", "request_body_size.record", "response_body_size.record"}

\* C23: response metric state: after construction and after the outcome
\* attribute is appended, the active-request attribute list is a strict prefix
\* of the full attribute list and holds only http.request.method,
\* server.address, server.port and url.scheme; network.protocol.name (always
\* there), network.protocol.version, http.route and the outcome attribute lie
\* after the prefix boundary.
C23_StrictPrefix ==
    layer.mw = "metrics" =>
        \A r \in DOMAIN phase :
            Called(r) =>
                LET full   == attributes(state[r])
                    prefix == active_requests_attributes(state[r])
                    rest   == SubSeq(full, Len(prefix) + 1, Len(full))
                IN  /\ IsPrefix(prefix, full)
                    /\ Len(prefix) < Len(full)
                    /\ KeysOf(prefix) \subseteq PrefixKeys
                    /\ KeysOf(rest) \cap PrefixKeys = {}
                    /\ "network.protocol.name" \in KeysOf(rest)
                    /\ KeysOf(rest) \subseteq
                           {"network.protocol.name", "network.protocol.version", "http.route"}
                           \cup OutcomeKeys
                    /\ Resolved(r) => KeysOf(rest) \cap OutcomeKeys # {}

\* a resolved request whose prefix holds the four attributes, the version and
\* the outcome lying after it
C23_Witness ==
    /\ layer.mw = "metrics"
    /\ \E r \in DOMAIN phase :
        /\ Resolved(r)
        /\ KeysOf(active_requests_attributes(state[r])) = PrefixKeys
        /\ Len(attributes(state[r])) = 7
        /\ attributes(state[r])[6][1] = "network.protocol.version"
        /\ attributes(state[r])[7][1] = "error.type"

\* C24: metrics middleware: the attribute set given with the -1 of the
\* active-request counter equals the one given with the +1 of the same
\* request, and a resolved request has both.
C24_SameAttributes ==
    layer.mw = "metrics" =>
        \A r \in DOMAIN phase :
            LET adds == OpsOf(events[r], {"active_requests.add"})
            IN  /\ \A i, j \in DOMAIN adds : adds[i].attributes = adds[j].attributes
                /\ Called(r) => CountOp(events[r], "active_requests.add", 1) = 1
                /\ Resolved(r) => CountOp(events[r], "active_requests.add", -1) = 1

\* a request resolved with a response: +1 and -1 carry the same four attributes
C24_Witness ==
    /\ layer.mw = "metrics"
    /\ \E r \in DOMAIN phase :
        /\ Resolved(r) /\ inner[r].value.ok
        /\ LET adds == OpsOf(events[r], {"active_requests.add"})
           IN  /\ Len(adds) = 2
               /\ adds[1].value = 1 /\ adds[2].value = -1
               /\ Len(adds[2].attributes) = 4

\* C25: metrics attribute list: the attributes a counter or histogram value
\* was recorded with stay in the list as they were; after construction the list
\* changes once, by the append of the outcome attribute, and that append comes
\* before every histogram value of the request.
C25_AppendOnly ==
    layer.mw = "metrics" =>
        \A r \in DOMAIN phase :
            Called(r) =>
                LET built == ResponseMetricState_new(layer.kind, received[r][1],
                                                     called_at[r]).attributes
                    full  == attributes(state[r])
                    evs   == events[r]
                IN  /\ \A i \in DOMAIN evs : IsPrefix(evs[i].attributes, full)
                    /\ IF Resolved(r)
                       THEN /\ Len(full) = Len(built) + 1
                            /\ SubSeq(full, 1, Len(built)) = built
                            /\ full[Len(full)][1] \in OutcomeKeys
                            /\ CountOp(evs, "push_response_attributes", 0) = 1
                       ELSE /\ full = built
                            /\ CountOp(evs, "push_response_attributes", 0) = 0
                    /\ \A i \in DOMAIN evs :
                           evs[i].op \in HistogramOps =>
                               /\ FirstOp(evs, "push_response_attributes") \in 1..(i - 1)
                               /\ evs[i].attributes = full

\* a request polled once without result, then resolved: the counter was
\* incremented with the list as built, the histograms got the appended list
C25_Witness ==
    /\ layer.mw = "metrics"
    /\ \E r \in DOMAIN phase :
        /\ Resolved(r) /\ polls[r] >= 1
        /\ Len(OpsOf(events[r], HistogramOps)) = 3
        /\ Len(attributes(state[r])) > Len(OpsOf(events[r], {"active_requests.add"})[1].attributes)

\* C26: metrics middleware, on call: the active-request counter is incremented
\* with the prefix attribute set before the call is forwarded to the inner
\* service.
C26_IncrementBeforeForward ==
    layer.mw = "metrics" =>
        \A r \in DOMAIN phase :
            Called(r) =>
                LET evs == events[r]
                    add == FirstOp(evs, "active_requests.add")
                IN  /\ add # 0
                    /\ evs[add].value = 1
                    /\ evs[add].attributes = active_requests_attributes(state[r])
                    /\ add < FirstOp(evs, "inner.call")

\* the events of a log after its last inner.poll
AfterLastPoll(evs) ==
    LET at == {i \in DOMAIN evs : evs[i].op = "inner.poll"}
        last == CHOOSE i \in at : \A j \in at : j <= i
    IN  IF at = {} THEN <<>> ELSE SubSeq(evs, last + 1, Len(evs))

\* C27: metrics middleware, on resolution of the inner future: the outcome
\* attribute is appended, the duration is recorded with the full attribute
\* set, the active-request counter is decremented with the prefix attribute
\* set, the request body size is recorded (if captured), the response body
\* size is recorded (on success, if derivable), and then the result is
\* returned to the caller, in this order.
C27_ResolutionOrder ==
    layer.mw = "metrics" =>
        \A r \in DOMAIN phase :
            Resolved(r) =>
                LET steps == AfterLastPoll(events[r])
                    res   == inner[r].value
                    full  == attributes(state[r])
                    expected ==
                        <<"push_response_attributes", "request_duration.record",
                          "active_requests.add">>
                        \o (IF state[r].request_body_size # None
                            THEN <<"request_body_size.record">> ELSE <<>>)
                        \o (IF res.ok /\ http_response_size(res.response) # None
                            THEN <<"response_body_size.record">> ELSE <<>>)
                        \o <<"Poll::Ready">>
                IN  /\ [i \in DOMAIN steps |-> steps[i].op] = expected
                    /\ steps[2].attributes = full
                    /\ steps[2].value = resolved_at[r] - called_at[r]
                    /\ steps[3].value = -1
                    /\ steps[3].attributes = active_requests_attributes(state[r])
                    /\ output[r] = Ready(res)

\* a request with a captured body size resolved with a response of derivable
\* size: all six steps happen
C27_Witness ==
    /\ layer.mw = "metrics"
    /\ \E r \in DOMAIN phase :
        /\ Resolved(r) /\ polls[r] >= 1
        /\ Len(AfterLastPoll(events[r])) = 6
        /\ resolved_at[r] > called_at[r]

C29_OutcomeAttribute ==
    layer.mw = "metrics" =>
        \A r \in DOMAIN phase :
            LET full     == attributes(state[r])
                outcomes == {i \in DOMAIN full : full[i][1] \in OutcomeKeys}
                evs      == events[r]
            IN  /\ IF Resolved(r)
                   THEN /\ Cardinality(outcomes) = 1
                        /\ \A i \in outcomes :
                               full[i] = IF inner[r].value.ok
                                         THEN <<"http.response.status_code",
                                                I64(inner[r].value.response.status)>>
                                         ELSE <<"error.type",
                                                Str(to_string(inner[r].value.err))>>
                   ELSE outcomes = {}
                /\ \A i \in DOMAIN evs :
                       /\ evs[i].op \in HistogramOps =>
                              Cardinality(KeysOf(evs[i].attributes) \cap OutcomeKeys) = 1
                       /\ evs[i].op = "active_requests.add" =>
                              KeysOf(evs[i].attributes) \cap OutcomeKeys = {}

\* a failed request: error.type is in the attributes of the duration, not in
\* those of the decrement
C29_Witness ==
    /\ layer.mw = "metrics"
    /\ \E r \in DOMAIN phase :
        /\ Resolved(r) /\ ~inner[r].value.ok
        /\ "error.type" \in KeysOf(attributes(state[r]))
        /\ \E i \in DOMAIN events[r] :
               /\ events[r][i].op = "request_duration.record"
               /\ "error.type" \in KeysOf(events[r][i].attributes)
        /\ CountOp(events[r], "active_requests.add", -1) = 1

AllTraceMws == TraceMws \cup {"otel_trace"}

\* what a poll of a trace response future does besides entering and leaving
InsidePoll == {"inner.poll", "record_response", "record_error", "update_span"}

RECURSIVE EnteredAfter(_, _)
\* how deep the span is entered after the events of a log, starting at depth d;
\* -1 if the span is entered while entered, exited while not entered, or a
\* step of a poll happens outside the span
EnteredAfter(evs, d) ==
    IF evs = <<>> THEN d
    ELSE LET e == Head(evs).op
         IN  CASE e = "span.enter"  ->
                      IF d = 0 THEN EnteredAfter(Tail(evs), 1) ELSE -1
               [] e = "span.exit"   ->
                      IF d = 1 THEN EnteredAfter(Tail(evs), 0) ELSE -1
               [] e \in InsidePoll  ->
                      IF d = 1 THEN EnteredAfter(Tail(evs), d) ELSE -1
               [] OTHER             -> EnteredAfter(Tail(evs), d)

\* C30: trace middlewares: each poll of the response future enters the span
\* first and exits it when it returns, with Pending or with Ready; whenever no
\* poll is running the span is not entered and there are as many exits as
\* enters; there is one enter per poll (plus the one around the inner call,
\* where the middleware makes it).
C30_EnterPerPoll ==
    layer.mw \in AllTraceMws =>
        \A r \in DOMAIN phase :
            LET evs      == events[r]
                inner_polls == {i \in DOMAIN evs : evs[i].op = "inner.poll"}
                enters   == Len(OpsOf(evs, {"span.enter"}))
                exits    == Len(OpsOf(evs, {"span.exit"}))
                around_call == IF layer.mw \in TraceMws /\ Called(r) THEN 1 ELSE 0
            IN  /\ EnteredAfter(evs, 0) = 0
                /\ enters = exits
                /\ \A i \in inner_polls : i > 1 /\ evs[i - 1].op = "span.enter"
                /\ Cardinality(inner_polls)
                       = polls[r] + (IF Resolved(r) THEN 1 ELSE 0)
                /\ enters = Cardinality(inner_polls) + around_call
                /\ \A i \in DOMAIN evs :
                       (evs[i].op = "span.exit" /\ i < Len(evs)) =>
                           evs[i + 1].op \in {"span.enter", "span.close"}

\* a request polled once without result and then resolved with an error: the
\* span was entered and exited by each of the two polls
C30_Witness ==
    /\ layer.mw = "otel_trace"
    /\ \E r \in DOMAIN phase :
        /\ Resolved(r) /\ polls[r] = 1 /\ ~inner[r].value.ok
        /\ Len(OpsOf(events[r], {"span.enter"})) = 2
        /\ Len(OpsOf(events[r], {"span.exit"})) = 2

\* C31: every trace middleware (trace Http, Grpc, HttpClient and the crate
\* root's OtelTrace) forwards the call to the inner service with its span
\* entered, and exits the span again before call returns.
C31_EnteredAroundCall ==
    layer.mw \in AllTraceMws =>
        \A r \in DOMAIN phase :
            Called(r) =>
                LET evs == events[r]
                    at  == FirstOp(evs, "inner.call")
                IN  /\ at > 1
                    /\ CountOp(evs, "inner.call", 0) = 1
                    /\ evs[at - 1].op = "span.enter"
                    /\ at < Len(evs) /\ evs[at + 1].op = "span.exit"
                    /\ EnteredAfter(SubSeq(evs, 1, at), 0) = 1
                    /\ EnteredAfter(SubSeq(evs, 1, at + 1), 0) = 0

\* the span of request r as make_request_span leaves it
MadeSpan(r) ==
    CASE layer.mw = "http" -> http_make_request_span(r, layer.kind, received[r][1]).span
      [] layer.mw = "grpc" -> grpc_make_request_span(r, layer.kind, received[r][1]).span
      [] OTHER             -> http_client_make_request_span(r, received[r][1]).span

\* the span of request r with the final attributes of the inner result res
FinalSpan(r, res) ==
    CASE layer.mw = "http" ->
             IF res.ok THEN http_record_response(MadeSpan(r), layer.kind, res.response)
             ELSE http_record_error(MadeSpan(r), res.err)
      [] layer.mw = "grpc" ->
             IF res.ok THEN grpc_record_response(MadeSpan(r), res.response)
             ELSE grpc_record_error(MadeSpan(r), res.err)
      [] OTHER ->
             IF res.ok THEN http_client_record_response(MadeSpan(r), res.response)
             ELSE http_client_record_error(MadeSpan(r), res.err)

\* C32: trace attribute ordering: the initial attributes of a span are all
\* written before the call is forwarded, and nothing is written from then to
\* the resolution; the final attributes are all written in the poll that
\* observes the resolution, before that poll leaves the span and before the
\* span is closed; a closed span has all its final attributes or, when the
\* request was abandoned, none.
C32_AttributeOrdering ==
    layer.mw \in TraceMws =>
        \A r \in DOMAIN phase :
            Called(r) =>
                LET evs      == events[r]
                    forward  == FirstOp(evs, "inner.call")
                    finals   == {i \in DOMAIN evs :
                                    evs[i].op \in {"record_response", "record_error"}}
                    written  == [span[r] EXCEPT !.closed = 0]
                IN  /\ FirstOp(evs, "make_request_span") \in 1..(forward - 1)
                    /\ FirstOp(evs, "span!") \in 1..(forward - 1)
                    /\ \A i \in DOMAIN evs :
                           evs[i].op \in {"span!", "inject_context", "extract", "set_parent"}
                               => i < forward
                    /\ ~span[r].late
                    /\ IF Resolved(r)
                       THEN /\ written = FinalSpan(r, inner[r].value)
                            /\ Cardinality(finals) = 1
                            /\ \A i \in finals :
                                   /\ evs[i - 1].op = "inner.poll"
                                   /\ evs[i + 1].op = "span.exit"
                                   /\ \A j \in DOMAIN evs :
                                          evs[j].op \in {"inner.poll", "span.close"}
                                              => (j < i <=> evs[j].op = "inner.poll")
                            /\ ~inner[r].value.ok =>
                                   /\ Field(span[r], "otel.status_code") = Str("ERROR")
                                   /\ Field(span[r], "error.message")
                                          = Str(to_string(inner[r].value.err))
                       ELSE /\ written = MadeSpan(r)
                            /\ finals = {}

\* the span of a server request, polled once without result, resolved with a
\* 500 and then closed: it has the status code and the error status
C32_Witness ==
    /\ layer = [mw |-> "http", kind |-> "server"]
    /\ \E r \in DOMAIN phase :
        /\ phase[r] = "done" /\ polls[r] >= 1
        /\ span[r].closed = 1
        /\ Field(span[r], "http.response.status_code") = I64(500)
        /\ Field(span[r], "otel.status_code") = Str("ERROR")
        /\ span[r].parent # None

RECURSIVE Repeat(_, _)
\* n times the sequence s
Repeat(s, n) == IF n = 0 THEN <<>> ELSE s \o Repeat(s, n - 1)

\* C33: concurrent requests on one metrics middleware: under every
\* interleaving of calls, polls and resolutions, as long as no response future
\* was dropped before its resolution, the active-request counter equals the
\* number of requests called and not yet resolved; it is never negative and is
\* zero when every request has resolved; the metric state and the recorded
\* values of a request come from its own request and its own result only.
C33_ConcurrentRequests ==
    layer.mw = "metrics" =>
        LET inflight  == {r \in DOMAIN phase : phase[r] = "inflight"}
            cancelled == {r \in DOMAIN phase : phase[r] = "cancelled"}
        IN  /\ active_requests >= 0
            /\ cancelled = {} => active_requests = Cardinality(inflight)
            /\ (cancelled = {} /\ \A r \in DOMAIN phase : Resolved(r)) => active_requests = 0
            /\ \A r \in DOMAIN phase :
                   Called(r) =>
                       LET c == metrics_call(layer.kind, received[r][1], called_at[r])
                           pending  == metrics_poll(c.state, Pending, 0)
                           resolved == metrics_poll(c.state, inner[r], resolved_at[r])
                       IN  IF Resolved(r)
                           THEN /\ state[r] = resolved.state
                                /\ events[r] = c.events
                                                 \o Repeat(pending.events, polls[r])
                                                 \o resolved.events
                           ELSE /\ state[r] = c.state
                                /\ events[r] = c.events \o Repeat(pending.events, polls[r])

\* two requests in flight at once, the second resolved with an error while the
\* first, polled once, is still pending: one request is counted as active
C33_Witness ==
    /\ layer.mw = "metrics"
    /\ Cardinality(DOMAIN phase) >= 2
    /\ phase[1] = "inflight" /\ polls[1] = 1
    /\ phase[2] = "resolved" /\ ~inner[2].value.ok
    /\ active_requests = 1
    /\ CountOp(events[2], "active_requests.add", -1) = 1
    /\ CountOp(events[1], "active_requests.add", -1) = 0

\* C34: a poll of the response future on which the inner future returns
\* Pending returns Pending and changes nothing that can be observed: the
\* metric state, the active-request counter and the span stay as they were,
\* and the poll records no counter or histogram value and no span attribute.
C34_PendingPollNoEffect ==
    [][\A r \in DOMAIN phase :
           polls'[r] # polls[r] =>
               LET added == SubSeq(events'[r], Len(events[r]) + 1, Len(events'[r]))
               IN  /\ output'[r] = Pending
                   /\ phase'[r] = phase[r]
                   /\ state' = state
                   /\ span' = span
                   /\ active_requests' = active_requests
                   /\ SubSeq(events'[r], 1, Len(events[r])) = events[r]
                   /\ added # <<>>
                   /\ \A i \in DOMAIN added :
                          added[i].op \in {"span.enter", "inner.poll", "span.exit"}
                   /\ \A q \in DOMAIN phase \ {r} : events'[q] = events[q]]_vars

\* a metrics request polled without result: still counted as active, with no
\* histogram value and no outcome attribute
C34_Witness ==
    /\ layer.mw = "metrics"
    /\ \E r \in DOMAIN phase :
        /\ phase[r] = "inflight" /\ polls[r] >= 1
        /\ output[r] = Pending
        /\ active_requests = 1
        /\ OpsOf(events[r], HistogramOps) = <<>>
        /\ KeysOf(attributes(state[r])) \cap OutcomeKeys = {}

\* the headers the propagator does not write
NotInjected(headers) == SelectSeq(headers, LAMBDA h : h.name # "traceparent")

\* C35: the request handed to the inner service is the request the middleware
\* received: the metrics middleware, the server-kind trace middlewares and
\* OtelTrace forward it as it is; the client-kind trace middlewares change
\* nothing but the header entries written by the injection of the context.
C35_ForwardedRequest ==
    \A r \in DOMAIN phase :
        Called(r) =>
            LET got  == received[r][1]
                sent == forwarded[r][1]
            IN  IF layer.mw \in TraceMws /\ layer.kind = "client"
                THEN /\ [sent EXCEPT !.headers = <<>>] = [got EXCEPT !.headers = <<>>]
                     /\ NotInjected(sent.headers) = NotInjected(got.headers)
                ELSE sent = got

\* a client-kind request that already carried a traceparent header: the
\* header is rewritten, the host header and the rest of the request are kept
C35_Witness ==
    /\ layer = [mw |-> "http", kind |-> "client"]
    /\ \E r \in DOMAIN phase :
        /\ Called(r)
        /\ forwarded[r] # received[r]
        /\ HeaderGet(received[r][1].headers, "traceparent") # None
        /\ HeaderGet(forwarded[r][1].headers, "host")
               = HeaderGet(received[r][1].headers, "host")
        /\ Len(forwarded[r][1].headers) = 3

\* C36: the crate root's OtelTrace: when the inner future resolves with an
\* error, the span has otel.status_code = ERROR and error.message equal to the
\* error's text when the error is returned to the caller.
C36_OtelTraceError ==
    layer.mw = "otel_trace" =>
        \A r \in DOMAIN phase :
            (Resolved(r) /\ ~inner[r].value.ok) =>
                /\ output[r] = Ready(Err(inner[r].value.err))
                /\ Field(span[r], "otel.status_code") = Str("ERROR")
                /\ Field(span[r], "error.message") = Str(to_string(inner[r].value.err))

\* the attributes of the headers whose value is text, under a prefix
HeaderAttributes(prefix, headers) ==
    LET decodable == SelectSeq(headers, LAMBDA h : h.value.text)
    IN  [i \in DOMAIN decodable |->
            <<<<prefix, decodable[i].name>>, decodable[i].value.s>>]

RequestPrefix  == IF layer.mw = "grpc" THEN "rpc.grpc.request.metadata."
                  ELSE "http.request.header."
ResponsePrefix == IF layer.mw = "grpc" THEN "rpc.grpc.response.metadata."
                  ELSE "http.response.header."

\* C37: extraction failures degrade to omission: a request or response header
\* whose value is not text gets no attribute, every header whose value is text
\* gets its attribute, a grpc-status that is not an integer leaves
\* rpc.grpc.status_code unset, a propagation header that is not text gives no
\* parent context, and the request's outcome is the inner service's.
C37_DegradeToOmission ==
    layer.mw \in AllTraceMws =>
        /\ extract(<<Header("traceparent", Opaque("ff"))>>) = None
        /\ \A r \in DOMAIN phase :
               Called(r) =>
                   LET from_request == HeaderAttributes(RequestPrefix, received[r][1].headers)
                       res == inner[r].value
                   IN  /\ output[r] = inner[r]
                       /\ IF Resolved(r) /\ res.ok
                          THEN span[r].attrs =
                                   from_request
                                   \o HeaderAttributes(ResponsePrefix, res.response.headers)
                          ELSE span[r].attrs = from_request
                       /\ (layer.mw = "grpc" /\ Resolved(r) /\ res.ok) =>
                              LET status == HeaderGet(res.response.headers, "grpc-status")
                              IN  (status # None
                                   /\ (~status[1].text \/ parse(status[1].s) = None))
                                      => Field(span[r], "rpc.grpc.status_code") = Empty

\* a request with a header that is not text, answered with a response whose
\* first header is not text: the span has the two attributes of the headers
\* that are text, and the response is returned
C37_Witness ==
    /\ layer.mw = "http"
    /\ \E r \in DOMAIN phase :
        /\ Resolved(r) /\ inner[r].value.ok
        /\ \E i \in DOMAIN received[r][1].headers : ~received[r][1].headers[i].value.text
        /\ Len(inner[r].value.response.headers) = 2
        /\ ~inner[r].value.response.headers[1].value.text
        /\ Len(span[r].attrs) = 2
        /\ span[r].attrs[2][1] = <<"http.response.header.", "content-type">>
        /\ output[r] = inner[r]

\* C38: trace::Grpc, on a successful completion: rpc.grpc.status_code is 0
\* when the response has no grpc-status header and the header's integer value
\* when it has one that parses; a grpc-status other than 0 does not set
\* otel.status_code; otel.status_code is ERROR on the span exactly when the
\* inner service returned an error.
C38_GrpcStatus ==
    layer.mw = "grpc" =>
        \A r \in DOMAIN phase :
            /\ Field(span[r], "otel.status_code")
                   = (IF Resolved(r) /\ ~inner[r].value.ok THEN Str("ERROR") ELSE Empty)
            /\ (Resolved(r) /\ inner[r].value.ok) =>
                   LET status == HeaderGet(inner[r].value.response.headers, "grpc-status")
                   IN  /\ status = None => Field(span[r], "rpc.grpc.status_code") = I64(0)
                       /\ (status # None /\ status[1].text /\ parse(status[1].s) # None) =>
                              Field(span[r], "rpc.grpc.status_code")
                                  = I64(parse(status[1].s)[1])

\* a response with grpc-status 13: the code is recorded, the span is no error
C38_Witness ==
    /\ layer.mw = "grpc"
    /\ \E r \in DOMAIN phase :
        /\ Resolved(r) /\ inner[r].value.ok
        /\ Field(span[r], "rpc.grpc.status_code") = I64(13)
        /\ Field(span[r], "otel.status_code") = Empty

\* the port a scheme stands for
SchemePort(url_scheme) ==
    IF url_scheme = Some(S_HTTP) THEN Some(80)
    ELSE IF url_scheme = Some(S_HTTPS) THEN Some(443)
    ELSE None

\* C39: server address and port: for a received request whose resolved host
\* is host:port, port being a 16-bit number, server_address is the host
\* without the port and server_port is the port, the bracketed IPv6 literal
\* [::1]:3000 included; without a port that can be read, server_port is 80
\* for http, 443 for https and absent otherwise; for a sent request the port
\* of the URI wins over the one of the scheme.
C39_AddressAndPort ==
    /\ Applied("recv") =>
           LET request == RecvRequest(probe.input)
               host    == recv_host(request)
               colons  == IF host = None THEN {}
                          ELSE {i \in DOMAIN host[1] : host[1][i] = ":"}
               last    == CHOOSE i \in colons : \A j \in colons : j <= i
               port    == IF colons = {} THEN None
                          ELSE u16_from_str(SubSeq(host[1], last + 1, Len(host[1])))
           IN  IF port # None
               THEN /\ probe.output.server_address = Some(SubSeq(host[1], 1, last - 1))
                    /\ probe.output.server_port = port
               ELSE probe.output.server_port = SchemePort(probe.output.url_scheme)
    /\ Applied("sent") =>
           /\ probe.output.server_address = probe.input.host
           /\ probe.output.server_port =
                  IF probe.input.port # None THEN probe.input.port
                  ELSE SchemePort(probe.input.scheme)
====
